---------------------------- MODULE Spec2Model ----------------------------
(***************************************************************************)
(* StormBee charge controller (src/Stormbee_charge_controller.ino).        *)
(*                                                                         *)
(* The firmware runs two execution contexts: the BLE task on core 1        *)
(* (ble_task_core1: reconnect, request cycle, publish, control tick) and   *)
(* the Arduino loop task (web handlers and the MQTT callback).  BLE        *)
(* stack callbacks (decodeGreenway notifications, CB::onDisconnect) are a  *)
(* third source of writes.  The specifications share the variables:        *)
(*                                                                         *)
(*   SpecDecide  checkChargeControl applied as a function to every input   *)
(*   Spec        the system with each handler / loop iteration atomic      *)
(*   SpecRace    checkChargeControl split into its reads and writes, the   *)
(*               BLE task and the loop-task handlers interleaved           *)
(*   SpecCmd     mqttCb applied to every payload                           *)
(*   SpecDecode  decodeGreenway applied to sequences of frames             *)
(*   SpecLoop    the active branch of ble_task_core1 split into steps,     *)
(*               interleaved with the BLE callbacks and the clock          *)
(*   SpecRequest the request cycle on a clock around the request interval  *)
(*   SpecWdt     the task watchdog and the blocking calls of the BLE task  *)
(*   SpecHyst    current frames moving the state of charge between the     *)
(*               decisions of the BLE task                                 *)
(***************************************************************************)
EXTENDS Integers, Sequences, FiniteSets, TLC

VARIABLES
    chargeTargetPercent,  \* int  chargeTargetPercent          (line 78)
    chargeMasterSwitch,   \* bool chargeMasterSwitch           (line 79)
    modeMQTT,             \* bool modeMQTT                     (line 80)
    relayActive,          \* bool relayActive                  (line 81)
    mqttForceOff,         \* bool mqttForceOff                 (line 84)
    relayPin,             \* level driven on RELAY_PIN, "HIGH" or "LOW" (active LOW)
    prefLim,              \* Preferences key "lim": <<value>>, or NoPref when never written
    bmsData,              \* struct BmsData bmsData (lines 91-108)
    reasm,                \* expect_suite_24, expect_suite_25, main_packet_shift_byte (lines 111-113)
    everDecoded,          \* history: a frame took a decoding branch since start
    frameCount,           \* SpecDecode: number of frames decoded so far
    isApMode,             \* bool isApMode                     (line 74)
    macSet,               \* targetDeviceMAC != ""             (line 36)
    linkUp,               \* pClient->isConnected()
    connected,            \* static bool connected             (line 49)
    chrData,              \* chrData: "null", "notify" (canNotify) or "plain"
    cbPending,            \* a disconnect happened and CB::onDisconnect has not run yet
    linkLost,             \* history: the link was lost and has not been made again
    requestIndex,         \* int requestIndex                  (line 43)
    lastRequestTime,      \* unsigned long lastRequestTime    (line 44)
    sinceRequest,         \* history: milliseconds since the last request of this boot was written
    requestCount,         \* history: requests written since boot, modulo 6
    wdt,                  \* SpecWdt: task watchdog, ms since each task's esp_task_wdt_reset(); blocking call of the BLE task
    blePc,                \* SpecRace: position of the BLE task inside checkChargeControl
    bleDesired,           \* SpecRace: desiredState local of the BLE task's call
    mainPc,               \* SpecRace: position of the loop-task handler
    mainDesired,          \* SpecRace: desiredState local of the handler's call
    mainOp,               \* SpecRace: the handler that is running, or "none"
    lastOp,               \* history: the operation that ran last
    priorRelay,           \* history: relayActive on entry of the last checkChargeControl
    lastLog,              \* output: the Serial log entry of the last operation, or NoLog
    out,                  \* output: transport/telemetry events of the last operation
    lastMsg,              \* history: payload of the last MQTT message
    lastDecode,           \* history: the frame decodeGreenway was last called with
    now,                  \* SpecLoop: millis()
    lastPublish,          \* unsigned long lastPublish     (line 87)
    sinceAttempt,         \* history: milliseconds since publishData was last called
    tickFresh             \* history: no flag or soc write since the running tick began

ctrlVars == <<chargeTargetPercent, chargeMasterSwitch, modeMQTT, mqttForceOff>>
relayVars == <<relayActive, relayPin>>
cfgVars == <<isApMode, macSet>>
clockVars == <<now, lastPublish, sinceAttempt>>
reqVars == <<lastRequestTime, sinceRequest, requestCount>>
linkVars == <<linkUp, connected, chrData, cbPending, linkLost>>
raceVars == <<blePc, bleDesired, mainPc, mainDesired, mainOp, tickFresh>>
decVars == <<reasm, everDecoded, frameCount>>
histVars == <<lastOp, priorRelay, lastLog, out, lastMsg, lastDecode>>

vars == <<ctrlVars, relayVars, prefLim, bmsData, decVars, cfgVars, clockVars, reqVars, wdt, linkVars, requestIndex,
          raceVars, histVars>>

-----------------------------------------------------------------------------
(* Program constants *)

DefaultLimit == 80
MaxSoc == 255
RegCurrent == 10
MinLenAny == 6
MinLenCurrent == 18
SocOffset == 9
RegOffset == 3
NumRegisters == 6
publishInterval == 10000
REQUEST_INTERVAL_MS == 500
WDT_TIMEOUT_S == 45

\* setup, line 774: .timeout_ms
WdtTimeoutMs == WDT_TIMEOUT_S * 1000

\* Variant of trigger_panic: the watchdog is configured to panic
trigger_panic_On == TRUE

\* setup, line 775: .trigger_panic = false
trigger_panic == FALSE

\* setup, lines 772-778 and 851: both tasks subscribed and just reset, the BLE
\* task in no blocking call
WdtZero == [ble |-> 0, loop |-> 0, call |-> "none"]
RegVoltage == 9
RegTemps == 8
RegCycles == 23
RegCellsLow == 36
RegCellsHigh == 37
MinLenVoltage == 9
MinLenTemps == 9
MinLenCycles == 7
MinLenCells == 20
ContLen == 18
NumCells == 28
CellArraySize == 32
CellFloorMv == 100
MinVInit == 10000

(* Bounds of the model *)

MaxMillis == 1
MaxRequests == 1
MaxFrames == 3
MaxNow == 20002

NoPref == <<>>
NoLog == [from |-> FALSE, to |-> FALSE, soc |-> 0, limit |-> 0, master |-> FALSE, mode |-> "none"]
NoMsg == <<"-">>
\* sinceAttempt of a call of publishData more than publishInterval ago, or of none
LongAgo == publishInterval + 1

\* sinceRequest before the first request of a boot, and its cap
LongAgoReq == REQUEST_INTERVAL_MS + 1

NoDecode == [frame |-> <<>>, kind |-> "none", reads |-> {}]

\* bmsData after static initialisation (lines 91-108).  The float fields hold
\* raw / 1000.0; the model keeps the raw integer (millivolts, milliamperes).
BmsZero ==
    [totalVoltage |-> 0, current |-> 0, soc |-> 0, soh |-> 0, cycleCount |-> 0,
     remainingCapacity |-> 0, fullCapacity |-> 0, tempT1 |-> 0, tempT2 |-> 0,
     tempMOS |-> 0, minVoltage |-> 0, maxVoltage |-> 0, minCellIndex |-> 0,
     maxCellIndex |-> 0, cellVolts |-> [i \in 0..(CellArraySize - 1) |-> 0],
     lastUpdateTime |-> 0]

\* the decoding statics, lines 111-113
ReasmZero ==
    [expect_suite_24 |-> FALSE, expect_suite_25 |-> FALSE, main_packet_shift_byte |-> 0]

-----------------------------------------------------------------------------
(* checkChargeControl, lines 342-381 *)

\* C1 mutant: the upper threshold taken at the limit itself, no dead band
DesiredState_NoBand(master, limit, socv, relay, mode, force) ==
    IF ~master THEN FALSE
    ELSE LET byLimit == IF limit = 100 THEN TRUE
                        ELSE IF socv >= limit THEN FALSE
                        ELSE IF socv <= (limit - 1) THEN TRUE
                        ELSE relay
         IN  IF mode /\ force THEN FALSE ELSE byLimit

\* C2 mutant: the limit-100 shortcut tested before the master switch
DesiredState_LimitFirst(master, limit, socv, relay, mode, force) ==
    IF limit = 100 THEN ~(mode /\ force)
    ELSE IF ~master THEN FALSE
    ELSE LET byLimit == IF socv >= (limit + 1) THEN FALSE
                        ELSE IF socv <= (limit - 1) THEN TRUE
                        ELSE relay
         IN  IF mode /\ force THEN FALSE ELSE byLimit

\* C3 mutant: the force-off override applied before the limit logic
DesiredState_ForceEarly(master, limit, socv, relay, mode, force) ==
    IF ~master THEN FALSE
    ELSE IF limit = 100 THEN TRUE
    ELSE IF mode /\ force THEN FALSE
    ELSE IF socv >= (limit + 1) THEN FALSE
    ELSE IF socv <= (limit - 1) THEN TRUE
    ELSE relay

\* C4 mutant: the limit-100 shortcut dropped, 100 handled by the hysteresis
DesiredState_NoShortcut(master, limit, socv, relay, mode, force) ==
    IF ~master THEN FALSE
    ELSE LET byLimit == IF socv >= (limit + 1) THEN FALSE
                        ELSE IF socv <= (limit - 1) THEN TRUE
                        ELSE relay
         IN  IF mode /\ force THEN FALSE ELSE byLimit

\* lines 351-364: the decision by the SOC limit (soc is promoted to int)
ByLimit(limit, socv, relay) ==
    IF limit = 100 THEN TRUE
    ELSE IF socv >= limit + 1 THEN FALSE
    ELSE IF socv <= limit - 1 THEN TRUE
    ELSE relay

\* desiredState as computed by lines 343-370
DesiredState(master, limit, socv, relay, mode, force) ==
    IF ~master THEN FALSE
    ELSE LET byLimit == ByLimit(limit, socv, relay)
         IN  IF mode /\ force THEN FALSE ELSE byLimit

\* digitalWrite(RELAY_PIN, desiredState ? LOW : HIGH), line 378
PinFor(desired) == IF desired THEN "LOW" ELSE "HIGH"

\* the Serial.printf of lines 374-376
LogEntry(from, to, socv, limit, master, mode) ==
    [from |-> from, to |-> to, soc |-> socv, limit |-> limit,
     master |-> master, mode |-> IF mode THEN "MQTT" ELSE "MANUAL"]

\* Variant of CheckChargeControl: the output is written and the log entry
\* printed on every call, without the comparison of line 373
CheckChargeControl_AlwaysApply(master, limit, mode, force) ==
    LET desired == DesiredState(master, limit, bmsData.soc, relayActive, mode, force)
    IN  /\ priorRelay' = relayActive
        /\ lastLog' = LogEntry(relayActive, desired, bmsData.soc, limit, master, mode)
        /\ relayPin' = PinFor(desired)
        /\ relayActive' = desired

\* Variant of CheckChargeControl: the new state is written to the output and
\* logged but not recorded in relayActive (no line 379)
CheckChargeControl_NoRecord(master, limit, mode, force) ==
    LET desired == DesiredState(master, limit, bmsData.soc, relayActive, mode, force)
    IN  /\ priorRelay' = relayActive
        /\ IF desired # relayActive
           THEN /\ lastLog' = LogEntry(relayActive, desired, bmsData.soc, limit, master, mode)
                /\ relayPin' = PinFor(desired)
                /\ UNCHANGED relayActive
           ELSE /\ lastLog' = NoLog
                /\ UNCHANGED relayVars

\* One whole call of checkChargeControl on the flag values the caller has
\* just written (master, limit, mode, force) and the current snapshot.
CheckChargeControl(master, limit, mode, force) ==
    LET desired == DesiredState(master, limit, bmsData.soc, relayActive, mode, force)
    IN  /\ priorRelay' = relayActive
        /\ IF desired # relayActive
           THEN /\ lastLog' = LogEntry(relayActive, desired, bmsData.soc, limit, master, mode)
                /\ relayPin' = PinFor(desired)
                /\ relayActive' = desired
           ELSE /\ lastLog' = NoLog
                /\ UNCHANGED relayVars

-----------------------------------------------------------------------------
(* SpecDecide: checkChargeControl as a function of its inputs *)

DecideLimits == {-1, 0, 49, 50, 51, 79, 80, 81, 85, 99, 100, 101, 300}

InitCommon ==
    /\ prefLim = NoPref
    /\ isApMode = FALSE
    /\ macSet = TRUE
    /\ linkUp = FALSE
    /\ connected = FALSE
    /\ chrData = "null"
    /\ cbPending = FALSE
    /\ linkLost = FALSE
    /\ requestIndex = 0
    /\ blePc = "idle"
    /\ bleDesired = FALSE
    /\ mainPc = "idle"
    /\ mainDesired = FALSE
    /\ mainOp = "none"
    /\ lastOp = "init"
    /\ priorRelay = FALSE
    /\ lastLog = NoLog
    /\ out = {}
    /\ lastMsg = NoMsg
    /\ lastDecode = NoDecode
    /\ reasm = ReasmZero
    /\ everDecoded = FALSE
    /\ frameCount = 0
    /\ tickFresh = FALSE
    /\ now = 0
    /\ lastPublish = 0
    /\ sinceAttempt = LongAgo
    /\ lastRequestTime = 0
    /\ sinceRequest = LongAgoReq
    /\ wdt = WdtZero
    /\ requestCount = 0

InitDecide ==
    /\ chargeTargetPercent \in DecideLimits
    /\ chargeMasterSwitch \in BOOLEAN
    /\ modeMQTT \in BOOLEAN
    /\ mqttForceOff \in BOOLEAN
    /\ relayActive \in BOOLEAN
    /\ relayPin = PinFor(relayActive)
    /\ \E s \in 0..MaxSoc, t \in 0..MaxMillis :
          bmsData = [BmsZero EXCEPT !.soc = s, !.lastUpdateTime = t]
    /\ InitCommon

DecideCall ==
    /\ CheckChargeControl(chargeMasterSwitch, chargeTargetPercent, modeMQTT, mqttForceOff)
    /\ lastOp' = "check"
    /\ out' = {}
    /\ UNCHANGED <<ctrlVars, prefLim, bmsData, decVars, cfgVars, clockVars, reqVars, wdt, linkVars, requestIndex,
                   raceVars, lastMsg, lastDecode>>

NextDecide == DecideCall

SpecDecide == InitDecide /\ [][NextDecide]_vars

-----------------------------------------------------------------------------
(* Inputs: payloads, frames, the clock *)

\* Strings are sequences of one-character strings, so that String::toInt and
\* the comparison with "OFF" work on the characters.
PayloadOff == <<"O", "F", "F">>
Payloads ==
    { PayloadOff, <<"O", "N">>, <<>>, <<"o", "f", "f">>, <<"8", "1">> }

TopicSetLimit == "stormbee/charge/set_limit"
TopicSetPower == "stormbee/charge/set_power"
\* the topics subscribed to, lines 894-895
Topics == {TopicSetLimit, TopicSetPower}

Digits == <<"0", "1", "2", "3", "4", "5", "6", "7", "8", "9">>
IsDigit(c) == \E i \in 1..10 : Digits[i] = c
DigitVal(c) == (CHOOSE i \in 1..10 : Digits[i] = c) - 1
IsSpace(c) == c \in {" ", "\t", "\n", "\r"}

RECURSIVE SkipSpace(_)
SkipSpace(s) == IF s # <<>> /\ IsSpace(Head(s)) THEN SkipSpace(Tail(s)) ELSE s

RECURSIVE ParseDigits(_, _)
ParseDigits(s, acc) ==
    IF s = <<>> \/ ~IsDigit(Head(s)) THEN acc
    ELSE ParseDigits(Tail(s), acc * 10 + DigitVal(Head(s)))

\* String::toInt (atol): leading white space, an optional sign, then the digits
\* up to the first other character; no digits gives 0.
ToInt(s) ==
    LET t == SkipSpace(s)
    IN  IF t = <<>> THEN 0
        ELSE IF Head(t) = "-" THEN 0 - ParseDigits(Tail(t), 0)
        ELSE IF Head(t) = "+" THEN ParseDigits(Tail(t), 0)
        ELSE ParseDigits(t, 0)

\* data[i] of a received frame (the frame is a sequence of bytes, data[0] first)
Byte(data, i) == data[i + 1]

\* A frame of len bytes with register tag reg at data[3] and socv at data[9]
MkFrame(len, reg, socv) ==
    [i \in 1..len |-> IF i = RegOffset + 1 THEN reg
                      ELSE IF i = SocOffset + 1 THEN socv
                      ELSE 0]

SocBytes == {80, 81}
Frames ==
    {MkFrame(19, RegCurrent, s) : s \in SocBytes}
        \cup {MkFrame(5, RegCurrent, 81), MkFrame(17, RegCurrent, 81), MkFrame(9, 9, 81)}

\* values millis() returns (0 at the wrap of the 32-bit counter)
Millis == 0..MaxMillis

-----------------------------------------------------------------------------
(* decodeGreenway, lines 252-334, and printDetailedCellTable, lines 184-207 *)

\* Bytes decodeGreenway may find just past the end of the buffer
PastBytes == {0, 255}

\* data[i], where an index past the end of the frame reads the byte past
ByteOr(data, i, past) == IF i < Len(data) THEN data[i + 1] ELSE past

\* (int8_t)b
Int8(b) == IF b >= 128 THEN b - 256 ELSE b

\* lo | (hi << 8)
Le16(lo, hi) == lo + 256 * hi

\* get32BitLEValue<int32_t>(data + off, 0), lines 132-136
Get32BitLEValue(data, off) ==
    Byte(data, off) + 256 * Byte(data, off + 1) + 65536 * Byte(data, off + 2)
        + 16777216 * Int8(Byte(data, off + 3))

\* the loop of printDetailedCellTable, lines 198-206
RECURSIVE CellLoop(_, _, _, _, _, _, _)
CellLoop(cells, cell, cellEnd, data, i, dataMaxIndex, isShiftedBlock) ==
    IF i >= dataMaxIndex THEN cells
    ELSE IF cell > cellEnd THEN cells
    ELSE IF ~isShiftedBlock /\ i + 1 >= dataMaxIndex THEN cells
    ELSE CellLoop([cells EXCEPT ![cell - 1] = Le16(Byte(data, i), Byte(data, i + 1))],
                  cell + 1, cellEnd, data, i + 2, dataMaxIndex, isShiftedBlock)

\* Variant of printDetailedCellTable: the cell number is used as the array
\* index (no - 1 at lines 192 and 204)
printDetailedCellTable_OneBased(cells, cellStartNum, cellEndNum, data, startDataIndex, dataMaxIndex, shiftLSB, isShiftedBlock) ==
    IF isShiftedBlock
    THEN CellLoop([cells EXCEPT ![cellStartNum] = Le16(shiftLSB, Byte(data, 0))],
                  cellStartNum + 2, cellEndNum + 1, data, startDataIndex + 1, dataMaxIndex, TRUE)
    ELSE CellLoop(cells, cellStartNum + 1, cellEndNum + 1, data, startDataIndex, dataMaxIndex, FALSE)

\* printDetailedCellTable, lines 184-207, as a function of the cell array
printDetailedCellTable(cells, cellStartNum, cellEndNum, data, startDataIndex, dataMaxIndex, shiftLSB, isShiftedBlock) ==
    IF isShiftedBlock
    THEN CellLoop([cells EXCEPT ![cellStartNum - 1] = Le16(shiftLSB, Byte(data, 0))],
                  cellStartNum + 1, cellEndNum, data, startDataIndex + 1, dataMaxIndex, TRUE)
    ELSE CellLoop(cells, cellStartNum, cellEndNum, data, startDataIndex, dataMaxIndex, FALSE)

\* lines 325-333: the scan for the lowest and highest cell.  v > 0.1 holds from
\* 100 mV on (the float nearest to 0.1 is above the double 0.1); minV starts
\* at 10.0 and maxV at 0.0.
RECURSIVE ScanCells(_, _, _, _, _, _)
ScanCells(cells, i, minV, maxV, minIdx, maxIdx) ==
    IF i >= NumCells THEN [minCellIndex |-> minIdx, maxCellIndex |-> maxIdx]
    ELSE IF cells[i] < CellFloorMv
         THEN ScanCells(cells, i + 1, minV, maxV, minIdx, maxIdx)
         ELSE IF cells[i] < minV
              THEN IF cells[i] > maxV
                   THEN ScanCells(cells, i + 1, cells[i], cells[i], i, i)
                   ELSE ScanCells(cells, i + 1, cells[i], maxV, i, maxIdx)
              ELSE IF cells[i] > maxV
                   THEN ScanCells(cells, i + 1, minV, cells[i], minIdx, i)
                   ELSE ScanCells(cells, i + 1, minV, maxV, minIdx, maxIdx)

\* The branch of lines 255-323 a frame takes
FrameKind(data) ==
    LET len == Len(data) IN
    IF len < MinLenAny THEN "short"
    ELSE LET regId == Byte(data, RegOffset) IN
         IF regId = RegVoltage /\ len >= MinLenVoltage THEN "voltage"
         ELSE IF regId = RegCurrent /\ len >= MinLenCurrent THEN "current"
         ELSE IF regId = RegTemps /\ len >= MinLenTemps THEN "temps"
         ELSE IF regId = RegCycles /\ len >= MinLenCycles THEN "cycles"
         ELSE IF regId = RegCellsHigh /\ len >= MinLenCells THEN "highHeader"
         ELSE IF regId = RegCellsLow /\ len >= MinLenCells THEN "lowHeader"
         ELSE IF len = ContLen
              THEN IF reasm.expect_suite_25 THEN "highCont"
                   ELSE IF reasm.expect_suite_24 THEN "lowCont"
                   ELSE "stray"
         ELSE "ignored"

\* The indices of data the loop of printDetailedCellTable reads (lines
\* 198-206): data[i] and data[i + 1] are read before the test of line 203
RECURSIVE CellReads(_, _, _, _, _)
CellReads(cell, cellEnd, i, dataMaxIndex, isShiftedBlock) ==
    IF i >= dataMaxIndex THEN {}
    ELSE IF cell > cellEnd THEN {}
    ELSE {i, i + 1} \cup
         (IF ~isShiftedBlock /\ i + 1 >= dataMaxIndex THEN {}
          ELSE CellReads(cell + 1, cellEnd, i + 2, dataMaxIndex, isShiftedBlock))

\* The indices of data one call of printDetailedCellTable reads: data[0] at
\* line 190 for a shifted block, then the loop
TableReads(cellStartNum, cellEndNum, startDataIndex, dataMaxIndex, isShiftedBlock) ==
    IF isShiftedBlock
    THEN {0} \cup CellReads(cellStartNum + 1, cellEndNum, startDataIndex + 1, dataMaxIndex, TRUE)
    ELSE CellReads(cellStartNum, cellEndNum, startDataIndex, dataMaxIndex, FALSE)

\* The indices of data decodeGreenway reads on a frame (debugMode off): data[3]
\* at line 256, then those of the frame's branch
DecodeReads(data) ==
    LET kind == FrameKind(data) IN
    IF Len(data) < MinLenAny THEN {}
    ELSE {RegOffset} \cup
         CASE kind = "voltage" -> 5..8
           [] kind = "current" -> (5..8) \cup {SocOffset, 13, 17, 18}
           [] kind = "temps" -> {5, 7, 9}
           [] kind = "cycles" -> {5, 6}
           [] kind = "highHeader" -> TableReads(17, 23, 5, 19, FALSE) \cup {19}
           [] kind = "lowHeader" -> TableReads(1, 7, 5, 19, FALSE) \cup {19}
           [] kind = "highCont" ->
                TableReads(24, 24, 0, 18, TRUE) \cup TableReads(25, 28, 1, 9, FALSE)
                    \cup (13..16)
           [] kind = "lowCont" ->
                TableReads(8, 8, 0, 18, TRUE) \cup TableReads(9, 16, 1, 17, FALSE)
           [] OTHER -> {}

\* lines 265-323: the fields the frame's branch writes
DecodeBranch(b, data, past) ==
    LET kind == FrameKind(data)
        shift == reasm.main_packet_shift_byte
    IN  CASE kind = "voltage" ->
               [b EXCEPT !.totalVoltage = Get32BitLEValue(data, 5)]
          [] kind = "current" ->
               [b EXCEPT !.current = Get32BitLEValue(data, 5),
                         !.soc = Byte(data, SocOffset),
                         !.soh = Byte(data, 13),
                         !.fullCapacity = Le16(Byte(data, 17), ByteOr(data, 18, past))]
          [] kind = "temps" ->
               [b EXCEPT !.tempT1 = Int8(Byte(data, 5)),
                         !.tempT2 = Int8(Byte(data, 7)),
                         !.tempMOS = Int8(ByteOr(data, 9, past))]
          [] kind = "cycles" ->
               [b EXCEPT !.cycleCount = Le16(Byte(data, 5), Byte(data, 6))]
          [] kind = "highHeader" ->
               [b EXCEPT !.cellVolts =
                   printDetailedCellTable(b.cellVolts, 17, 23, data, 5, 19, 0, FALSE)]
          [] kind = "lowHeader" ->
               [b EXCEPT !.cellVolts =
                   printDetailedCellTable(b.cellVolts, 1, 7, data, 5, 19, 0, FALSE)]
          [] kind = "highCont" ->
               [b EXCEPT !.cellVolts =
                   printDetailedCellTable(
                       printDetailedCellTable(b.cellVolts, 24, 24, data, 0, 18, shift, TRUE),
                       25, 28, data, 1, 9, 0, FALSE),
                         !.maxVoltage = Le16(Byte(data, 13), Byte(data, 14)),
                         !.minVoltage = Le16(Byte(data, 15), Byte(data, 16))]
          [] kind = "lowCont" ->
               [b EXCEPT !.cellVolts =
                   printDetailedCellTable(
                       printDetailedCellTable(b.cellVolts, 8, 8, data, 0, 18, shift, TRUE),
                       9, 16, data, 1, 17, 0, FALSE)]
          [] OTHER -> b

\* bmsData after decodeGreenway(data, len) called at millis() = t
DecodeGreenway(data, t, past) ==
    IF Len(data) < MinLenAny THEN bmsData
    ELSE LET stamped == [bmsData EXCEPT !.lastUpdateTime = t]
             decoded == DecodeBranch(stamped, data, past)
             idx == ScanCells(decoded.cellVolts, 0, MinVInit, 0,
                              decoded.minCellIndex, decoded.maxCellIndex)
         IN  [decoded EXCEPT !.minCellIndex = idx.minCellIndex,
                             !.maxCellIndex = idx.maxCellIndex]

\* Variant of DecodeReasm: a consumed continuation leaves its block pending
DecodeReasm_KeepPending(data) ==
    LET kind == FrameKind(data) IN
    CASE kind = "highHeader" ->
           [expect_suite_24 |-> FALSE, expect_suite_25 |-> TRUE,
            main_packet_shift_byte |-> Byte(data, 19)]
      [] kind = "lowHeader" ->
           [expect_suite_24 |-> TRUE, expect_suite_25 |-> FALSE,
            main_packet_shift_byte |-> Byte(data, 19)]
      [] OTHER -> reasm

\* Variant of DecodeReasm: a header leaves the other block pending
DecodeReasm_BothPending(data) ==
    LET kind == FrameKind(data) IN
    CASE kind = "highHeader" ->
           [reasm EXCEPT !.expect_suite_25 = TRUE, !.main_packet_shift_byte = Byte(data, 19)]
      [] kind = "lowHeader" ->
           [reasm EXCEPT !.expect_suite_24 = TRUE, !.main_packet_shift_byte = Byte(data, 19)]
      [] kind = "highCont" -> [reasm EXCEPT !.expect_suite_25 = FALSE]
      [] kind = "lowCont" -> [reasm EXCEPT !.expect_suite_24 = FALSE]
      [] OTHER -> reasm

\* Variant of DecodeReasm: a frame no branch takes drops the pending block
DecodeReasm_DropOnIgnored(data) ==
    LET kind == FrameKind(data) IN
    CASE kind = "highHeader" ->
           [expect_suite_24 |-> FALSE, expect_suite_25 |-> TRUE,
            main_packet_shift_byte |-> Byte(data, 19)]
      [] kind = "lowHeader" ->
           [expect_suite_24 |-> TRUE, expect_suite_25 |-> FALSE,
            main_packet_shift_byte |-> Byte(data, 19)]
      [] kind = "highCont" -> [reasm EXCEPT !.expect_suite_25 = FALSE]
      [] kind = "lowCont" -> [reasm EXCEPT !.expect_suite_24 = FALSE]
      [] kind = "ignored" -> ReasmZero
      [] OTHER -> reasm

\* the decoding statics after decodeGreenway(data, len), lines 294-323
DecodeReasm(data) ==
    LET kind == FrameKind(data) IN
    CASE kind = "highHeader" ->
           [expect_suite_24 |-> FALSE, expect_suite_25 |-> TRUE,
            main_packet_shift_byte |-> Byte(data, 19)]
      [] kind = "lowHeader" ->
           [expect_suite_24 |-> TRUE, expect_suite_25 |-> FALSE,
            main_packet_shift_byte |-> Byte(data, 19)]
      [] kind = "highCont" -> [reasm EXCEPT !.expect_suite_25 = FALSE]
      [] kind = "lowCont" -> [reasm EXCEPT !.expect_suite_24 = FALSE]
      [] OTHER -> reasm

\* the frame kinds of a decoding branch that was taken
DecodedKinds ==
    {"voltage", "current", "temps", "cycles", "highHeader", "lowHeader", "highCont", "lowCont"}

\* The bytes a frame's branch may read past the end of the frame: the current
\* branch reads data[18] of an 18-byte frame, the temperature branch data[9]
\* of a 9-byte frame; no other branch reads past the end.
PastFor(data) ==
    IF \/ FrameKind(data) = "current" /\ Len(data) <= 18
       \/ FrameKind(data) = "temps" /\ Len(data) <= 9
    THEN PastBytes
    ELSE {0}

\* One call of decodeGreenway: snapshot and statics
DecodeCall(data, t, past) ==
    /\ bmsData' = DecodeGreenway(data, t, past)
    /\ reasm' = DecodeReasm(data)
    /\ everDecoded' = (everDecoded \/ FrameKind(data) \in DecodedKinds)

-----------------------------------------------------------------------------
(* Spec: every handler, callback and loop iteration is one atomic action *)

Idle(idx) ==
    /\ chargeTargetPercent = DefaultLimit
    /\ chargeMasterSwitch = TRUE
    /\ modeMQTT = FALSE
    /\ mqttForceOff = FALSE
    /\ relayActive = FALSE
    /\ relayPin = "HIGH"
    /\ bmsData = BmsZero
    /\ prefLim = NoPref
    /\ isApMode \in BOOLEAN
    /\ macSet \in BOOLEAN
    /\ linkUp = FALSE
    /\ connected = FALSE
    /\ chrData = "null"
    /\ cbPending = FALSE
    /\ linkLost = FALSE
    /\ requestIndex = idx
    /\ blePc = "idle"
    /\ bleDesired = FALSE
    /\ mainPc = "idle"
    /\ mainDesired = FALSE
    /\ mainOp = "none"
    /\ lastOp = "init"
    /\ priorRelay = FALSE
    /\ lastLog = NoLog
    /\ out = {}
    /\ lastMsg = NoMsg
    /\ lastDecode = NoDecode
    /\ reasm = ReasmZero
    /\ everDecoded = FALSE
    /\ frameCount = 0
    /\ tickFresh = FALSE
    /\ now = 0
    /\ lastPublish = 0
    /\ sinceAttempt = LongAgo
    /\ lastRequestTime = 0
    /\ sinceRequest = LongAgoReq
    /\ wdt = WdtZero
    /\ requestCount = idx % NumRegisters

Init == Idle(0)

\* An operation that does not run checkChargeControl and emits nothing
NoCheck ==
    /\ priorRelay' = relayActive
    /\ lastLog' = NoLog
    /\ UNCHANGED relayVars

\* handleSetMaster, line 533
HandleSetMaster ==
    /\ chargeMasterSwitch' = ~chargeMasterSwitch
    /\ CheckChargeControl(~chargeMasterSwitch, chargeTargetPercent, modeMQTT, mqttForceOff)
    /\ lastOp' = "setMaster"
    /\ out' = {}
    /\ lastMsg' = NoMsg
    /\ lastDecode' = NoDecode
    /\ UNCHANGED <<chargeTargetPercent, modeMQTT, mqttForceOff, prefLim, bmsData, decVars,
                   cfgVars, clockVars, reqVars, wdt, linkVars, requestIndex, raceVars>>

\* handleSetMode, line 534
HandleSetMode ==
    /\ modeMQTT' = ~modeMQTT
    /\ CheckChargeControl(chargeMasterSwitch, chargeTargetPercent, ~modeMQTT, mqttForceOff)
    /\ lastOp' = "setMode"
    /\ out' = {}
    /\ lastMsg' = NoMsg
    /\ lastDecode' = NoDecode
    /\ UNCHANGED <<chargeTargetPercent, chargeMasterSwitch, mqttForceOff, prefLim,
                   bmsData, decVars, cfgVars, clockVars, reqVars, wdt, linkVars, requestIndex, raceVars>>

\* handleSetLimit, line 535: server.arg("val").toInt() stored and persisted unchecked
HandleSetLimit(val) ==
    /\ chargeTargetPercent' = ToInt(val)
    /\ prefLim' = <<ToInt(val)>>
    /\ CheckChargeControl(chargeMasterSwitch, ToInt(val), modeMQTT, mqttForceOff)
    /\ lastOp' = "setLimit"
    /\ out' = {}
    /\ lastMsg' = NoMsg
    /\ lastDecode' = NoDecode
    /\ UNCHANGED <<chargeMasterSwitch, modeMQTT, mqttForceOff, bmsData, decVars, cfgVars, clockVars, reqVars, wdt,
                   linkVars, requestIndex, raceVars>>

\* C10 mutant: the payload compared without regard to case
ForceOffFor_AnyCase(msg) == msg \in {PayloadOff, <<"o", "f", "f">>}

\* lines 670-671: msg == "OFF"
ForceOffFor(msg) == msg = PayloadOff

\* lines 663-664: the range test on msg.toInt()
LimitAccepted(msg) == ToInt(msg) >= 50 /\ ToInt(msg) <= 100

\* mqttCb, lines 660-674 (registered only outside AP mode, line 830)
MqttCb(topic, msg) ==
    /\ ~isApMode
    /\ IF topic = TopicSetLimit
       THEN IF LimitAccepted(msg)
            THEN /\ chargeTargetPercent' = ToInt(msg)
                 /\ CheckChargeControl(chargeMasterSwitch, ToInt(msg), modeMQTT, mqttForceOff)
                 /\ UNCHANGED mqttForceOff
            ELSE NoCheck /\ UNCHANGED <<chargeTargetPercent, mqttForceOff>>
       ELSE TRUE
    /\ IF topic = TopicSetPower
       THEN /\ mqttForceOff' = ForceOffFor(msg)
            /\ CheckChargeControl(chargeMasterSwitch, chargeTargetPercent, modeMQTT,
                                  ForceOffFor(msg))
            /\ UNCHANGED chargeTargetPercent
       ELSE TRUE
    /\ lastOp' = topic
    /\ out' = {}
    /\ lastMsg' = msg
    /\ lastDecode' = NoDecode
    /\ UNCHANGED <<chargeMasterSwitch, modeMQTT, prefLim, bmsData, decVars, cfgVars, clockVars, reqVars, wdt, linkVars,
                   requestIndex, raceVars>>

\* handleScanBLE, line 581: an established connection is dropped before the scan
HandleScanBLE ==
    /\ connected
    /\ connected' = FALSE
    /\ linkUp' = FALSE
    /\ cbPending' = (cbPending \/ linkUp)
    /\ linkLost' = (linkLost \/ linkUp)
    /\ NoCheck
    /\ lastOp' = "scanBLE"
    /\ out' = {}
    /\ lastMsg' = NoMsg
    /\ lastDecode' = NoDecode
    /\ UNCHANGED <<ctrlVars, prefLim, bmsData, decVars, cfgVars, clockVars, reqVars, wdt, chrData, requestIndex, raceVars>>

\* The BMS goes out of range: pClient->isConnected() turns false, the stack
\* will call CB::onDisconnect.
LinkDrop ==
    /\ linkUp
    /\ linkUp' = FALSE
    /\ cbPending' = TRUE
    /\ linkLost' = TRUE
    /\ NoCheck
    /\ lastOp' = "linkDrop"
    /\ out' = {}
    /\ lastMsg' = NoMsg
    /\ lastDecode' = NoDecode
    /\ UNCHANGED <<ctrlVars, prefLim, bmsData, decVars, cfgVars, clockVars, reqVars, wdt, connected, chrData,
                   requestIndex, raceVars>>

\* CB::onDisconnect, lines 612-617
OnDisconnect ==
    /\ cbPending
    /\ cbPending' = FALSE
    /\ connected' = FALSE
    /\ chrData' = "null"
    /\ bmsData' = [bmsData EXCEPT !.lastUpdateTime = 0]
    /\ UNCHANGED decVars
    /\ NoCheck
    /\ lastOp' = "onDisconnect"
    /\ out' = {}
    /\ lastMsg' = NoMsg
    /\ lastDecode' = NoDecode
    /\ UNCHANGED <<ctrlVars, prefLim, cfgVars, clockVars, reqVars, wdt, linkUp, linkLost, requestIndex, raceVars>>

\* A notification delivered to decodeGreenway (registered at line 710)
Notify(data, t) ==
    /\ linkUp
    /\ chrData = "notify"
    /\ \E past \in PastFor(data) : DecodeCall(data, t, past)
    /\ NoCheck
    /\ lastOp' = "notify"
    /\ out' = {}
    /\ lastMsg' = NoMsg
    /\ lastDecode' = NoDecode
    /\ UNCHANGED <<ctrlVars, prefLim, cfgVars, clockVars, reqVars, wdt, linkVars, requestIndex, raceVars, frameCount>>

\* ble_task_core1, lines 691-720: one iteration taking the reconnection branch
\* with the 5 s retry period elapsed.  ok is the result of pClient->connect();
\* found is what getService / getCharacteristic return.  A disconnect still to
\* be reported is reported by the stack before a new connection is made.
BleConnect(ok, found) ==
    /\ ~isApMode
    /\ ~connected
    /\ macSet
    /\ ~cbPending
    /\ IF ok
       THEN /\ linkUp' = TRUE
            /\ linkLost' = FALSE
            /\ connected' = TRUE
            /\ chrData' = CASE found = "noservice" -> chrData
                            [] found = "nochar" -> "null"
                            [] OTHER -> found
       ELSE /\ linkUp' = FALSE
            /\ UNCHANGED <<connected, chrData, linkLost>>
    /\ cbPending' = FALSE
    /\ NoCheck
    /\ lastOp' = "bleReconnect"
    /\ out' = {}
    /\ lastMsg' = NoMsg
    /\ lastDecode' = NoDecode
    /\ UNCHANGED <<ctrlVars, prefLim, bmsData, decVars, cfgVars, clockVars, reqVars, requestIndex, raceVars>>

\* The iteration where no watchdog time is kept: each iteration resets the
\* task's watchdog time (line 687), which stays 0
BleReconnect(ok, found) == BleConnect(ok, found) /\ UNCHANGED wdt

\* ble_task_core1, lines 722-731: the active branch finds the physical link lost
BleLinkLostBranch ==
    /\ ~isApMode
    /\ connected
    /\ chrData # "null"
    /\ ~linkUp
    /\ connected' = FALSE
    /\ chrData' = "null"
    /\ bmsData' = [bmsData EXCEPT !.lastUpdateTime = 0]
    /\ UNCHANGED decVars
    /\ NoCheck
    /\ lastOp' = "bleLinkLost"
    /\ out' = {}
    /\ lastMsg' = NoMsg
    /\ lastDecode' = NoDecode
    /\ UNCHANGED <<ctrlVars, prefLim, cfgVars, clockVars, reqVars, linkUp, cbPending, linkLost,
                   requestIndex, raceVars>>

BleLinkLost == BleLinkLostBranch /\ UNCHANGED wdt

\* registersToRequest, line 42
registersToRequest == <<9, 10, 8, 36, 37, 23>>

\* The range of int (line 43)
MaxInt32 == 2147483647
MinInt32 == -MaxInt32 - 1

\* a % b of C on ints with b > 0: the remainder has the sign of a
CRem(a, b) ==
    IF a >= 0 THEN a % b
    ELSE IF a % b = 0 THEN 0 ELSE (a % b) - b

\* line 745: requestIndex++.  The increment of the global goes through
\* memory; at the largest int it overflows, and the two's-complement add of
\* the target gives the smallest int.
Inc32(x) == IF x = MaxInt32 THEN MinInt32 ELSE x + 1

\* line 736: requestIndex % 6, the index registersToRequest is read at
RequestSlot(idx) == CRem(idx, NumRegisters)

\* line 736: registersToRequest[requestIndex % 6]; an index outside the array
\* reads a byte of the memory next to it
RequestTag(idx, stray) ==
    IF RequestSlot(idx) \in 0..(NumRegisters - 1)
    THEN registersToRequest[RequestSlot(idx) + 1]
    ELSE stray

\* The bytes a read outside registersToRequest can give
StrayFor(idx) == IF RequestSlot(idx) \in 0..(NumRegisters - 1) THEN {0} ELSE PastBytes

\* line 737: uint8_t s = 0; for (i = 0; i < n; i++) s += cmd[i]
RECURSIVE Sum8(_, _)
Sum8(cmd, n) == IF n = 0 THEN 0 ELSE (Sum8(cmd, n - 1) + cmd[n]) % 256

\* Variant of RequestCmd: the checksum loop stops one byte early
RequestCmd_ShortSum(tag) ==
    LET cmd == <<70, 22, 1, tag, 32, 0>>
    IN  [cmd EXCEPT ![6] = Sum8(cmd, 4)]

\* lines 736-737: the command written for a register tag
RequestCmd(tag) ==
    LET cmd == <<70, 22, 1, tag, 32, 0>>
    IN  [cmd EXCEPT ![6] = Sum8(cmd, 5)]

\* lines 734-747: the request written when the request interval has elapsed
RequestOut(reqDue, stray) ==
    IF reqDue
    THEN {[ev |-> "request", tag |-> RequestTag(requestIndex, stray),
           frame |-> RequestCmd(RequestTag(requestIndex, stray))]}
    ELSE {}

\* lines 745-746 after a write: the counter and the time of the request
RequestStamp(reqDue) ==
    /\ requestIndex' = IF reqDue THEN Inc32(requestIndex) ELSE requestIndex
    /\ lastRequestTime' = IF reqDue THEN now ELSE lastRequestTime
    /\ sinceRequest' = IF reqDue THEN 0 ELSE sinceRequest
    /\ requestCount' = IF reqDue THEN (requestCount + 1) % NumRegisters ELSE requestCount

\* publishData, lines 647-653: the two messages published past the validity gate
TelemetryOut(mqttUp) ==
    IF mqttUp
    THEN {[ev |-> "status", tag |-> 0, frame |-> <<>>],
          [ev |-> "cells", tag |-> 0, frame |-> <<>>]}
    ELSE {}

\* publishData, lines 626-655, called when the publish interval has elapsed
\* (lines 750-753); useZigbee is never set, so only the MQTT branch can publish
PublishOut(pubDue, mqttUp) ==
    IF pubDue /\ bmsData.lastUpdateTime # 0 THEN TelemetryOut(mqttUp) ELSE {}

\* C7 mutant: the active branch without its test of pClient->isConnected()
BleActive_NoLinkTest(reqDue, pubDue, mqttUp) ==
    /\ ~isApMode
    /\ connected
    /\ chrData # "null"
    /\ reqDue => requestIndex < MaxRequests
    /\ RequestStamp(reqDue)
    /\ \E stray \in StrayFor(requestIndex) :
          out' = RequestOut(reqDue, stray) \cup PublishOut(pubDue, mqttUp)
    /\ CheckChargeControl(chargeMasterSwitch, chargeTargetPercent, modeMQTT, mqttForceOff)
    /\ lastOp' = "tick"
    /\ lastMsg' = NoMsg
    /\ lastDecode' = NoDecode
    /\ UNCHANGED <<ctrlVars, prefLim, bmsData, decVars, cfgVars, clockVars, wdt, linkVars, raceVars>>

\* ble_task_core1, lines 722-756: one iteration of the active branch with the
\* link up.  Whether each millis() interval has elapsed, and whether the MQTT
\* client is connected, are inputs of the iteration.
BleIteration(reqDue, pubDue, mqttUp) ==
    /\ ~isApMode
    /\ connected
    /\ chrData # "null"
    /\ linkUp
    /\ RequestStamp(reqDue)
    /\ \E stray \in StrayFor(requestIndex) :
          out' = RequestOut(reqDue, stray) \cup PublishOut(pubDue, mqttUp)
    /\ CheckChargeControl(chargeMasterSwitch, chargeTargetPercent, modeMQTT, mqttForceOff)
    /\ lastOp' = "tick"
    /\ lastMsg' = NoMsg
    /\ lastDecode' = NoDecode
    /\ UNCHANGED <<ctrlVars, prefLim, bmsData, decVars, cfgVars, clockVars, linkVars, raceVars>>

\* The iteration with the number of requests bounded
BleActive(reqDue, pubDue, mqttUp) ==
    /\ reqDue => requestIndex < MaxRequests
    /\ BleIteration(reqDue, pubDue, mqttUp)
    /\ UNCHANGED wdt

\* setup, line 796: preferences.getInt("lim", 80)
SetupLimit(pref) == IF pref = NoPref THEN DefaultLimit ELSE pref[1]

\* ESP.restart() (handleSaveWifi / handleSaveMqtt, lines 542-553) followed by
\* setup, lines 765-869: every global is back at its initial value, the relay
\* output is driven HIGH, the limit is reloaded from the preferences; the SSID
\* just saved decides whether the device comes up in AP mode (lines 813-827).
Reboot(ap) ==
    /\ chargeTargetPercent' = SetupLimit(prefLim)
    /\ chargeMasterSwitch' = TRUE
    /\ modeMQTT' = FALSE
    /\ mqttForceOff' = FALSE
    /\ relayActive' = FALSE
    /\ relayPin' = "HIGH"
    /\ bmsData' = BmsZero
    /\ reasm' = ReasmZero
    /\ everDecoded' = FALSE
    /\ UNCHANGED frameCount
    /\ isApMode' = ap
    /\ linkUp' = FALSE
    /\ connected' = FALSE
    /\ chrData' = "null"
    /\ cbPending' = FALSE
    /\ linkLost' = FALSE
    /\ requestIndex' = 0
    /\ priorRelay' = relayActive
    /\ lastLog' = NoLog
    /\ lastOp' = "restart"
    /\ out' = {}
    /\ lastMsg' = NoMsg
    /\ lastDecode' = NoDecode
    /\ now' = 0
    /\ lastPublish' = 0
    /\ lastRequestTime' = 0
    /\ sinceRequest' = LongAgoReq
    /\ requestCount' = 0
    /\ wdt' = WdtZero
    /\ UNCHANGED <<prefLim, macSet, sinceAttempt>>

Restart(ap) == Reboot(ap) /\ UNCHANGED raceVars

Next ==
    \/ HandleSetMaster
    \/ HandleSetMode
    \/ \E val \in Payloads : HandleSetLimit(val)
    \/ \E topic \in Topics, msg \in Payloads : MqttCb(topic, msg)
    \/ HandleScanBLE
    \/ LinkDrop
    \/ OnDisconnect
    \/ \E data \in Frames, t \in Millis : Notify(data, t)
    \/ \E ok \in BOOLEAN, found \in {"noservice", "nochar", "notify", "plain"} :
          BleReconnect(ok, found)
    \/ BleLinkLost
    \/ \E reqDue, pubDue, mqttUp \in BOOLEAN : BleActive(reqDue, pubDue, mqttUp)
    \/ \E ap \in BOOLEAN : Restart(ap)

Spec == Init /\ [][Next]_vars

-----------------------------------------------------------------------------
(* SpecCmd: mqttCb applied to every topic and payload in every flag state *)

CmdPayloads ==
    Payloads \cup { <<"1", "0", "0">>, <<"4", "9">>, <<"5", "0">>, <<"8", "5">>, <<"1", "0", "1">>,
                    <<"a", "b", "c">>, <<"0">>, <<"8", "5", "a", "b", "c">>,
                    <<" ", "8", "5">>, <<"-", "6", "0">>, <<"8", "5", ".", "9">> }
CmdLimits == {0, 50, 80, 100}
CmdSocs == {0, 79, 80, 81}

InitCmd ==
    /\ chargeTargetPercent \in CmdLimits
    /\ chargeMasterSwitch \in BOOLEAN
    /\ modeMQTT \in BOOLEAN
    /\ mqttForceOff \in BOOLEAN
    /\ relayActive \in BOOLEAN
    /\ relayPin = PinFor(relayActive)
    /\ \E s \in CmdSocs : bmsData = [BmsZero EXCEPT !.soc = s, !.lastUpdateTime = MaxMillis]
    /\ InitCommon

CmdCall ==
    /\ lastOp = "init"
    /\ \E topic \in Topics, msg \in CmdPayloads : MqttCb(topic, msg)

NextCmd == CmdCall

SpecCmd == InitCmd /\ [][NextCmd]_vars

------------------------------------------------------------------------------
(* SpecDecode: decodeGreenway on frames arriving one after another, from the  *)
(* snapshot and the decoding statics of a fresh boot                          *)

\* A frame of len bytes, tag reg at data[3], every other byte fill
FilledFrame(len, reg, fill) ==
    [i \in 1..len |-> IF i = RegOffset + 1 THEN reg ELSE fill]

\* The byte layout the decoder reads cells from, in millivolts c[1..28]:
\* header 0x24, lines 300-304: cells 1-7 at data[5..18], data[19] the low byte
\* of cell 8
LowHeader(c) ==
    [i \in 1..20 |->
        IF i = RegOffset + 1 THEN RegCellsLow
        ELSE IF i = 20 THEN c[8] % 256
        ELSE IF i >= 6 THEN (IF i % 2 = 0 THEN c[(i - 4) \div 2] % 256
                                          ELSE c[(i - 5) \div 2] \div 256)
        ELSE 0]

\* its 18-byte continuation, lines 317-322: data[0] the high byte of cell 8,
\* cells 9-16 at data[1..16]
LowCont(c) ==
    [i \in 1..18 |->
        IF i = 1 THEN c[8] \div 256
        ELSE IF i <= 17 THEN (IF i % 2 = 0 THEN c[8 + (i \div 2)] % 256
                                           ELSE c[8 + ((i - 1) \div 2)] \div 256)
        ELSE 0]

\* header 0x25, lines 294-298: cells 17-23 at data[5..18], data[19] the low
\* byte of cell 24
HighHeader(c) ==
    [i \in 1..20 |->
        IF i = RegOffset + 1 THEN RegCellsHigh
        ELSE IF i = 20 THEN c[24] % 256
        ELSE IF i >= 6 THEN (IF i % 2 = 0 THEN c[16 + ((i - 4) \div 2)] % 256
                                          ELSE c[16 + ((i - 5) \div 2)] \div 256)
        ELSE 0]

\* its 18-byte continuation, lines 307-316: data[0] the high byte of cell 24,
\* cells 25-28 at data[1..8], the pack maximum at data[13..14] and minimum at
\* data[15..16]
HighCont(c, maxV, minV) ==
    [i \in 1..18 |->
        IF i = 1 THEN c[24] \div 256
        ELSE IF i <= 9 THEN (IF i % 2 = 0 THEN c[24 + (i \div 2)] % 256
                                          ELSE c[24 + ((i - 1) \div 2)] \div 256)
        ELSE IF i = 14 THEN maxV % 256
        ELSE IF i = 15 THEN maxV \div 256
        ELSE IF i = 16 THEN minV % 256
        ELSE IF i = 17 THEN minV \div 256
        ELSE 0]

\* Cell voltages of a pack: cells spread around 3.3 V, and a balanced pack
\* whose cells all read 3.338 V
CellPatterns == {[k \in 1..NumCells |-> 3300 + k], [k \in 1..NumCells |-> 3338]}

\* highest and lowest cell of a pattern
PackMax(c) == CHOOSE v \in {c[k] : k \in 1..NumCells} : \A k \in 1..NumCells : c[k] <= v
PackMin(c) == CHOOSE v \in {c[k] : k \in 1..NumCells} : \A k \in 1..NumCells : c[k] >= v

\* a register tag the decoder has no branch for
UnknownTag == 85

DecodeFrames ==
    {LowHeader(c) : c \in CellPatterns}
        \cup {LowCont(c) : c \in CellPatterns}
        \cup {HighHeader(c) : c \in CellPatterns}
        \cup {HighCont(c, PackMax(c), PackMin(c)) : c \in CellPatterns}
        \cup {FilledFrame(9, RegVoltage, 1), FilledFrame(19, RegCurrent, 81),
              FilledFrame(18, RegCurrent, 81), FilledFrame(10, RegTemps, 200),
              FilledFrame(9, RegTemps, 200), FilledFrame(7, RegCycles, 2),
              FilledFrame(5, RegCurrent, 81), FilledFrame(17, RegCurrent, 81),
              FilledFrame(8, RegVoltage, 1), FilledFrame(19, RegCellsLow, 13),
              FilledFrame(10, UnknownTag, 81), FilledFrame(18, UnknownTag, 13),
              FilledFrame(19, RegCurrent, 200)}

InitDecode == Init /\ ~isApMode /\ macSet

\* notifyCallback -> decodeGreenway, line 252, on the next frame
DecodeFrame(data, t) ==
    /\ frameCount < MaxFrames
    /\ frameCount' = frameCount + 1
    /\ \E past \in PastFor(data) : DecodeCall(data, t, past)
    /\ lastDecode' = [frame |-> data, kind |-> FrameKind(data), reads |-> DecodeReads(data)]
    /\ lastOp' = "decode"
    /\ priorRelay' = relayActive
    /\ lastLog' = NoLog
    /\ out' = {}
    /\ lastMsg' = NoMsg
    /\ UNCHANGED <<ctrlVars, relayVars, prefLim, cfgVars, clockVars, reqVars, wdt, linkVars, requestIndex, raceVars>>

NextDecode == \E data \in DecodeFrames : DecodeFrame(data, MaxMillis)

SpecDecode == InitDecode /\ [][NextDecode]_vars

-----------------------------------------------------------------------------
(* SpecRace: the BLE task and the handlers of the loop task are two tasks     *)
(* that the scheduler may switch between at any instruction; both run         *)
(* checkChargeControl on the shared flags, without a lock.                    *)
(* A call is split at its reads and writes of shared variables:               *)
(*   "m"   lines 343-349  read chargeMasterSwitch                             *)
(*   "lim" lines 350-364  read chargeTargetPercent, bmsData.soc, relayActive  *)
(*   "ovr" lines 366-369  read modeMQTT, mqttForceOff                         *)
(*   "cmp" line  373      read relayActive                                    *)
(*   "wr"  lines 374-378  log, digitalWrite                                   *)
(*   "set" line  379      write relayActive                                   *)
(*   "ret"                the call is over                                    *)

\* Inputs of the interleaved specification
RaceLimitArgs == { <<"8", "1">>, <<"1", "0", "0">> }
RacePowerMsgs == { PayloadOff, <<"O", "N">> }
RaceFrames == { MkFrame(19, RegCurrent, s) : s \in SocBytes }

\* One step of a call of checkChargeControl whose position is pc and whose
\* local desiredState is des; pcN and desN are their next values.
CheckStep(pc, des, pcN, desN) ==
    \/ /\ pc = "m"
       /\ desN = FALSE
       /\ pcN = IF chargeMasterSwitch THEN "lim" ELSE "cmp"
       /\ lastLog' = NoLog
       /\ UNCHANGED relayVars
    \/ /\ pc = "lim"
       /\ desN = ByLimit(chargeTargetPercent, bmsData.soc, relayActive)
       /\ pcN = "ovr"
       /\ lastLog' = NoLog
       /\ UNCHANGED relayVars
    \/ /\ pc = "ovr"
       /\ desN = IF modeMQTT /\ mqttForceOff THEN FALSE ELSE des
       /\ pcN = "cmp"
       /\ lastLog' = NoLog
       /\ UNCHANGED relayVars
    \/ /\ pc = "cmp"
       /\ desN = des
       /\ pcN = IF des # relayActive THEN "wr" ELSE "ret"
       /\ lastLog' = NoLog
       /\ UNCHANGED relayVars
    \/ /\ pc = "wr"
       /\ desN = des
       /\ lastLog' = LogEntry(relayActive, des, bmsData.soc, chargeTargetPercent,
                              chargeMasterSwitch, modeMQTT)
       /\ relayPin' = PinFor(des)
       /\ pcN = "set"
       /\ UNCHANGED relayActive
    \/ /\ pc = "set"
       /\ desN = des
       /\ relayActive' = des
       /\ pcN = "ret"
       /\ lastLog' = NoLog
       /\ UNCHANGED relayPin

\* history and outputs of a step that logs and sends nothing
RaceHist ==
    /\ lastOp' = "race"
    /\ lastMsg' = NoMsg
    /\ lastDecode' = NoDecode
    /\ priorRelay' = FALSE
    /\ out' = {}

\* ble_task_core1, lines 722-754: an iteration of the active branch, neither
\* interval elapsed, arrives at its call of checkChargeControl
RaceTickBegin ==
    /\ blePc = "idle"
    /\ ~isApMode /\ connected /\ chrData # "null" /\ linkUp
    /\ blePc' = "m"
    /\ tickFresh' = (mainPc = "idle")
    /\ lastLog' = NoLog
    /\ RaceHist
    /\ UNCHANGED <<ctrlVars, relayVars, prefLim, bmsData, decVars, cfgVars, clockVars, reqVars, wdt, linkVars,
                   requestIndex, bleDesired, mainPc, mainDesired, mainOp>>

RaceTickStep ==
    /\ CheckStep(blePc, bleDesired, blePc', bleDesired')
    /\ RaceHist
    /\ UNCHANGED <<ctrlVars, prefLim, bmsData, decVars, cfgVars, clockVars, reqVars, wdt, linkVars, requestIndex,
                   mainPc, mainDesired, mainOp, tickFresh>>

\* line 758: the iteration ends
RaceTickEnd ==
    /\ blePc = "ret"
    /\ blePc' = "idle"
    /\ bleDesired' = FALSE
    /\ tickFresh' = FALSE
    /\ lastLog' = NoLog
    /\ RaceHist
    /\ UNCHANGED <<ctrlVars, relayVars, prefLim, bmsData, decVars, cfgVars, clockVars, reqVars, wdt, linkVars,
                   requestIndex, mainPc, mainDesired, mainOp>>

\* The handler op has written its flag and arrives at its call of
\* checkChargeControl; changed tells whether the write changed the value.
RaceHandlerBegin(op, changed) ==
    /\ mainPc = "idle"
    /\ mainPc' = "m"
    /\ mainOp' = op
    /\ tickFresh' = (tickFresh /\ ~changed)
    /\ lastLog' = NoLog
    /\ RaceHist
    /\ UNCHANGED <<relayVars, bmsData, decVars, cfgVars, clockVars, reqVars, wdt, linkVars, requestIndex, blePc,
                   bleDesired, mainDesired>>

\* handleSetMaster, line 533
RaceSetMaster ==
    /\ RaceHandlerBegin("setMaster", TRUE)
    /\ chargeMasterSwitch' = ~chargeMasterSwitch
    /\ UNCHANGED <<chargeTargetPercent, modeMQTT, mqttForceOff, prefLim>>

\* handleSetMode, line 534
RaceSetMode ==
    /\ RaceHandlerBegin("setMode", TRUE)
    /\ modeMQTT' = ~modeMQTT
    /\ UNCHANGED <<chargeTargetPercent, chargeMasterSwitch, mqttForceOff, prefLim>>

\* handleSetLimit, line 535
RaceSetLimit(val) ==
    /\ RaceHandlerBegin("setLimit", ToInt(val) # chargeTargetPercent)
    /\ chargeTargetPercent' = ToInt(val)
    /\ prefLim' = <<ToInt(val)>>
    /\ UNCHANGED <<chargeMasterSwitch, modeMQTT, mqttForceOff>>

\* mqttCb, lines 669-673, set_power
RaceMqttPower(msg) ==
    /\ RaceHandlerBegin(TopicSetPower, ForceOffFor(msg) # mqttForceOff)
    /\ mqttForceOff' = ForceOffFor(msg)
    /\ UNCHANGED <<chargeTargetPercent, chargeMasterSwitch, modeMQTT, prefLim>>

RaceHandlerStep ==
    /\ CheckStep(mainPc, mainDesired, mainPc', mainDesired')
    /\ RaceHist
    /\ UNCHANGED <<ctrlVars, prefLim, bmsData, decVars, cfgVars, clockVars, reqVars, wdt, linkVars, requestIndex,
                   blePc, bleDesired, mainOp, tickFresh>>

\* the handler returns
RaceHandlerEnd ==
    /\ mainPc = "ret"
    /\ mainPc' = "idle"
    /\ mainDesired' = FALSE
    /\ mainOp' = "none"
    /\ lastLog' = NoLog
    /\ RaceHist
    /\ UNCHANGED <<ctrlVars, relayVars, prefLim, bmsData, decVars, cfgVars, clockVars, reqVars, wdt, linkVars,
                   requestIndex, blePc, bleDesired, tickFresh>>

\* ble_task_core1, lines 691-720, with the task at the top of its loop: the
\* connection is made and notifications are enabled
RaceReconnect ==
    /\ blePc = "idle"
    /\ ~isApMode /\ ~connected /\ macSet /\ ~cbPending
    /\ linkUp' = TRUE
    /\ linkLost' = FALSE
    /\ connected' = TRUE
    /\ chrData' = "notify"
    /\ lastLog' = NoLog
    /\ RaceHist
    /\ UNCHANGED <<ctrlVars, relayVars, prefLim, bmsData, decVars, cfgVars, clockVars, reqVars, wdt, cbPending,
                   requestIndex, raceVars>>

\* decodeGreenway called by the BLE stack while the other contexts run
RaceNotify(data, t) ==
    /\ linkUp
    /\ chrData = "notify"
    /\ \E past \in PastFor(data) :
          /\ bmsData' = DecodeGreenway(data, t, past)
          /\ tickFresh' = (tickFresh /\ DecodeGreenway(data, t, past).soc = bmsData.soc)
    /\ reasm' = DecodeReasm(data)
    /\ everDecoded' = (everDecoded \/ FrameKind(data) \in DecodedKinds)
    /\ UNCHANGED frameCount
    /\ lastLog' = NoLog
    /\ RaceHist
    /\ UNCHANGED <<ctrlVars, relayVars, prefLim, cfgVars, clockVars, reqVars, wdt, linkVars, requestIndex,
                   blePc, bleDesired, mainPc, mainDesired, mainOp>>

InitRace == Init /\ ~isApMode /\ macSet

NextRace ==
    \/ RaceTickBegin
    \/ RaceTickStep
    \/ RaceTickEnd
    \/ RaceSetMaster
    \/ RaceSetMode
    \/ \E val \in RaceLimitArgs : RaceSetLimit(val)
    \/ \E msg \in RacePowerMsgs : RaceMqttPower(msg)
    \/ RaceHandlerStep
    \/ RaceHandlerEnd
    \/ RaceReconnect
    \/ \E data \in RaceFrames : RaceNotify(data, MaxMillis)

SpecRace == InitRace /\ [][NextRace]_vars

------------------------------------------------------------------------------
(* SpecLoop: one iteration of the active branch of ble_task_core1, lines      *)
(* 722-756, split at its reads of the shared link state, interleaved with the *)
(* BLE stack's callbacks (CB::onDisconnect, decodeGreenway) and the passing   *)
(* of time.  blePc is the position of the iteration:                          *)
(*   idle  not in the active branch                                           *)
(*   link  past line 722, at the test of pClient->isConnected(), line 725     *)
(*   req   at the request cycle, line 734                                     *)
(*   pub   at the test of the publish interval, line 750                      *)
(*   gate  publishData entered, at its test of lastUpdateTime, line 627       *)
(*   emit  past the gate, at the publish calls, lines 648-651                 *)
(*   stamp publishData returned, at lastPublish = millis(), line 752          *)
(*   chk   at checkChargeControl, line 754                                    *)

\* milliseconds that pass between two steps
ClockSteps == {5000, 5001}

\* line 750: millis() - lastPublish > publishInterval (unsigned; the model
\* stops the clock at MaxNow, before the counter wraps)
PublishDue(n, lp) == n - lp > publishInterval

loopRest == <<bleDesired, mainPc, mainDesired, mainOp, tickFresh>>

\* history and outputs of a step that logs nothing
LoopHist ==
    /\ lastOp' = "loop"
    /\ lastMsg' = NoMsg
    /\ lastDecode' = NoDecode
    /\ priorRelay' = relayActive
    /\ lastLog' = NoLog

ClockTick(dt) ==
    /\ now + dt <= MaxNow
    /\ now' = now + dt
    /\ sinceAttempt' = IF sinceAttempt + dt > LongAgo THEN LongAgo ELSE sinceAttempt + dt
    /\ sinceRequest' = IF sinceRequest + dt > LongAgoReq THEN LongAgoReq ELSE sinceRequest + dt
    /\ lastOp' = "clock"
    /\ lastMsg' = NoMsg
    /\ lastDecode' = NoDecode
    /\ priorRelay' = relayActive
    /\ lastLog' = NoLog
    /\ out' = {}
    /\ UNCHANGED <<ctrlVars, relayVars, prefLim, bmsData, decVars, cfgVars, lastPublish,
                   lastRequestTime, requestCount, wdt, linkVars, requestIndex, raceVars>>

\* line 722: connected && chrData
LoopEnter ==
    /\ blePc = "idle"
    /\ ~isApMode
    /\ connected
    /\ chrData # "null"
    /\ blePc' = "link"
    /\ out' = {}
    /\ LoopHist
    /\ UNCHANGED <<ctrlVars, relayVars, prefLim, bmsData, decVars, cfgVars, clockVars, reqVars, wdt,
                   linkVars, requestIndex, loopRest>>

\* lines 725-731
LoopLinkTest ==
    /\ blePc = "link"
    /\ IF linkUp
       THEN /\ blePc' = "req"
            /\ UNCHANGED <<connected, chrData, bmsData>>
       ELSE /\ blePc' = "idle"
            /\ connected' = FALSE
            /\ chrData' = "null"
            /\ bmsData' = [bmsData EXCEPT !.lastUpdateTime = 0]
    /\ out' = {}
    /\ LoopHist
    /\ UNCHANGED <<ctrlVars, relayVars, prefLim, decVars, cfgVars, clockVars, reqVars, wdt, linkUp,
                   cbPending, linkLost, requestIndex, loopRest>>

\* lines 734-747 with chrData still set: the request is written when due
LoopRequest(reqDue) ==
    /\ blePc = "req"
    /\ reqDue => (chrData # "null" /\ requestIndex < MaxRequests)
    /\ RequestStamp(reqDue)
    /\ \E stray \in StrayFor(requestIndex) : out' = RequestOut(reqDue, stray)
    /\ blePc' = "pub"
    /\ LoopHist
    /\ UNCHANGED <<ctrlVars, relayVars, prefLim, bmsData, decVars, cfgVars, clockVars, wdt,
                   linkVars, loopRest>>

\* line 743 after CB::onDisconnect has cleared chrData: writeValue is called
\* through a null pointer.  The call faults and the device reboots, or it
\* returns without having written.
LoopRequestNull(panic) ==
    /\ blePc = "req"
    /\ chrData = "null"
    /\ IF panic
       THEN /\ Reboot(isApMode)
            /\ blePc' = "idle"
            /\ UNCHANGED loopRest
       ELSE /\ requestIndex < MaxRequests
            /\ requestIndex' = Inc32(requestIndex)
            /\ lastRequestTime' = now
            /\ out' = {}
            /\ blePc' = "pub"
            /\ LoopHist
            /\ UNCHANGED <<ctrlVars, relayVars, prefLim, bmsData, decVars, cfgVars,
                           clockVars, sinceRequest, requestCount, wdt, linkVars, loopRest>>

\* line 750, and the call of publishData at line 751
LoopPublishTest ==
    /\ blePc = "pub"
    /\ IF PublishDue(now, lastPublish)
       THEN blePc' = "gate" /\ sinceAttempt' = 0
       ELSE blePc' = "chk" /\ UNCHANGED sinceAttempt
    /\ out' = {}
    /\ LoopHist
    /\ UNCHANGED <<ctrlVars, relayVars, prefLim, bmsData, decVars, cfgVars, now, lastPublish,
                   reqVars, wdt, linkVars, requestIndex, loopRest>>

\* publishData, line 627
LoopGate ==
    /\ blePc = "gate"
    /\ blePc' = IF bmsData.lastUpdateTime = 0 THEN "stamp" ELSE "emit"
    /\ out' = {}
    /\ LoopHist
    /\ UNCHANGED <<ctrlVars, relayVars, prefLim, bmsData, decVars, cfgVars, clockVars, reqVars, wdt,
                   linkVars, requestIndex, loopRest>>

\* publishData, lines 629-653
LoopEmit(mqttUp) ==
    /\ blePc = "emit"
    /\ out' = TelemetryOut(mqttUp)
    /\ blePc' = "stamp"
    /\ LoopHist
    /\ UNCHANGED <<ctrlVars, relayVars, prefLim, bmsData, decVars, cfgVars, clockVars, reqVars, wdt,
                   linkVars, requestIndex, loopRest>>

\* line 752
LoopStamp ==
    /\ blePc = "stamp"
    /\ lastPublish' = now
    /\ blePc' = "chk"
    /\ out' = {}
    /\ LoopHist
    /\ UNCHANGED <<ctrlVars, relayVars, prefLim, bmsData, decVars, cfgVars, now, sinceAttempt,
                   reqVars, wdt, linkVars, requestIndex, loopRest>>

\* line 754
LoopCheck ==
    /\ blePc = "chk"
    /\ CheckChargeControl(chargeMasterSwitch, chargeTargetPercent, modeMQTT, mqttForceOff)
    /\ blePc' = "idle"
    /\ out' = {}
    /\ lastOp' = "tick"
    /\ lastMsg' = NoMsg
    /\ lastDecode' = NoDecode
    /\ UNCHANGED <<ctrlVars, prefLim, bmsData, decVars, cfgVars, clockVars, reqVars, wdt, linkVars,
                   requestIndex, loopRest>>

\* lines 691-720, taken by an iteration that is not in the active branch
LoopReconnect(ok, found) == blePc = "idle" /\ BleReconnect(ok, found)

\* the frames notified while the loop runs
LoopFrames == {MkFrame(19, RegCurrent, 81), MkFrame(17, RegCurrent, 81)}

\* a notification delivered while the loop runs; line 257 reads millis()
LoopNotify(data) == Notify(data, now)

InitLoop == Init /\ ~isApMode /\ macSet

NextLoop ==
    \/ \E dt \in ClockSteps : ClockTick(dt)
    \/ LoopEnter
    \/ LoopLinkTest
    \/ \E reqDue \in BOOLEAN : LoopRequest(reqDue)
    \/ \E panic \in BOOLEAN : LoopRequestNull(panic)
    \/ LoopPublishTest
    \/ LoopGate
    \/ \E mqttUp \in BOOLEAN : LoopEmit(mqttUp)
    \/ LoopStamp
    \/ LoopCheck
    \/ \E ok \in BOOLEAN, found \in {"noservice", "nochar", "notify", "plain"} :
          LoopReconnect(ok, found)
    \/ LinkDrop
    \/ OnDisconnect
    \/ \E data \in LoopFrames : LoopNotify(data)

SpecLoop == InitLoop /\ [][NextLoop]_vars

-----------------------------------------------------------------------------
(* SpecRequest: the request cycle of ble_task_core1, lines 734-747, with the  *)
(* clock in steps around the request interval.  requestIndex starts at 0, or  *)
(* two requests before the largest int, the value it has after that many      *)
(* requests without a restart.                                                *)

\* milliseconds that pass between two iterations
RequestClockSteps == {250, 251}

\* the clock of SpecRequest stops here
MaxReqNow == 3007

\* the values of requestIndex the cycle is started from
RequestStarts == {0, MaxInt32 - 1}

\* Variant of RequestDue: the request interval is not waited for
RequestDue_NoWait(n, lrt) == TRUE

\* line 734: millis() - lastRequestTime > REQUEST_INTERVAL_MS (unsigned; the
\* model stops the clock before the counter wraps)
RequestDue(n, lrt) == n - lrt > REQUEST_INTERVAL_MS

RequestTick(dt) ==
    /\ now + dt <= MaxReqNow
    /\ ClockTick(dt)

\* lines 722-756: one iteration of the active branch, the request interval
\* measured on the clock.  The publish interval does not elapse before
\* MaxReqNow.
RequestIteration(mqttUp) ==
    /\ ~PublishDue(now, lastPublish)
    /\ BleIteration(RequestDue(now, lastRequestTime), FALSE, mqttUp)
    /\ UNCHANGED wdt

InitRequest == \E idx \in RequestStarts : Idle(idx) /\ ~isApMode /\ macSet

NextRequest ==
    \/ \E dt \in RequestClockSteps : RequestTick(dt)
    \/ \E mqttUp \in BOOLEAN : RequestIteration(mqttUp)
    \/ \E ok \in BOOLEAN, found \in {"noservice", "nochar", "notify", "plain"} :
          BleReconnect(ok, found)
    \/ LinkDrop
    \/ OnDisconnect
    \/ BleLinkLost
    \/ \E ap \in BOOLEAN : Restart(ap)

SpecRequest == InitRequest /\ [][NextRequest]_vars

-----------------------------------------------------------------------------
(* SpecWdt: the task watchdog.  setup (lines 772-778, 851) subscribes the     *)
(* loop task and the BLE task with a timeout of 45 s; wdt.ble and wdt.loop    *)
(* are the milliseconds since the task last called esp_task_wdt_reset().      *)
(* The blocking calls of the BLE task, pClient->connect (line 704) and        *)
(* chrData->writeValue (line 743), are split into their start and their       *)
(* return; wdt.call names the call that is outstanding.  No web or MQTT       *)
(* request arrives.                                                           *)

\* milliseconds that pass in one step
WdtSteps == {15000, 30000}

\* the watchdog times are not counted beyond this
MaxWdtIdle == 90000

WdtAdd(t, dt) == IF t + dt > MaxWdtIdle THEN MaxWdtIdle ELSE t + dt

\* history and outputs of a step of SpecWdt that changes no program variable
WdtHist(op) ==
    /\ lastOp' = op
    /\ lastMsg' = NoMsg
    /\ lastDecode' = NoDecode
    /\ priorRelay' = relayActive
    /\ lastLog' = NoLog
    /\ out' = {}
    /\ UNCHANGED <<ctrlVars, relayVars, prefLim, bmsData, decVars, cfgVars, clockVars,
                   reqVars, linkVars, requestIndex, raceVars>>

\* time passes for both tasks
WdtTick(dt) ==
    /\ wdt.ble < MaxWdtIdle \/ wdt.loop < MaxWdtIdle
    /\ wdt' = [wdt EXCEPT !.ble = WdtAdd(wdt.ble, dt), !.loop = WdtAdd(wdt.loop, dt)]
    /\ WdtHist("wdtClock")

\* The watchdog timer runs out for a subscribed task that has not reset it
\* for timeout_ms.  With trigger_panic the chip panics and restarts; without,
\* the expiry is logged and the timer starts again.
WdtExpire(task) ==
    /\ wdt[task] >= WdtTimeoutMs
    /\ IF trigger_panic
       THEN Reboot(isApMode) /\ UNCHANGED raceVars
       ELSE /\ wdt' = [wdt EXCEPT ![task] = 0]
            /\ WdtHist("wdtAlarm")

\* loop, lines 874-934, with nothing to serve: line 875
WdtLoopIdle ==
    /\ wdt' = [wdt EXCEPT !.loop = 0]
    /\ WdtHist("mainLoop")

\* ble_task_core1, an iteration that takes neither branch: line 687
WdtBleIdle ==
    /\ wdt.call = "none"
    /\ isApMode \/ (~connected /\ ~macSet) \/ (connected /\ chrData = "null")
    /\ wdt' = [wdt EXCEPT !.ble = 0]
    /\ WdtHist("bleIdle")

\* lines 687-704: the reconnection branch up to the call of pClient->connect
WdtConnectStart ==
    /\ wdt.call = "none"
    /\ ~isApMode
    /\ ~connected
    /\ macSet
    /\ ~cbPending
    /\ wdt' = [wdt EXCEPT !.ble = 0, !.call = "connect"]
    /\ WdtHist("bleCall")

\* lines 704-719: pClient->connect returns
WdtConnectReturn(ok, found) ==
    /\ wdt.call = "connect"
    /\ BleConnect(ok, found)
    /\ wdt' = [wdt EXCEPT !.call = "none"]

\* lines 687, 722-731: the active branch finds the link lost
WdtLinkLost ==
    /\ wdt.call = "none"
    /\ BleLinkLostBranch
    /\ wdt' = [wdt EXCEPT !.ble = 0]

\* lines 687, 722-743: the active branch up to the call of writeValue
WdtWriteStart ==
    /\ wdt.call = "none"
    /\ ~isApMode
    /\ connected
    /\ chrData # "null"
    /\ linkUp
    /\ requestIndex < MaxRequests
    /\ wdt' = [wdt EXCEPT !.ble = 0, !.call = "write"]
    /\ WdtHist("bleCall")

\* lines 743-756: writeValue returns and the iteration goes on
WdtWriteReturn(pubDue, mqttUp) ==
    /\ wdt.call = "write"
    /\ BleIteration(TRUE, pubDue, mqttUp)
    /\ wdt' = [wdt EXCEPT !.call = "none"]

\* lines 687, 722-756: an iteration of the active branch with no request due
WdtActive(pubDue, mqttUp) ==
    /\ wdt.call = "none"
    /\ BleIteration(FALSE, pubDue, mqttUp)
    /\ wdt' = [wdt EXCEPT !.ble = 0]

InitWdt == Init /\ macSet

NextWdt ==
    \/ \E dt \in WdtSteps : WdtTick(dt)
    \/ \E task \in {"ble", "loop"} : WdtExpire(task)
    \/ WdtLoopIdle
    \/ WdtBleIdle
    \/ WdtConnectStart
    \/ \E ok \in BOOLEAN, found \in {"noservice", "nochar", "notify", "plain"} :
          WdtConnectReturn(ok, found)
    \/ WdtLinkLost
    \/ WdtWriteStart
    \/ \E pubDue, mqttUp \in BOOLEAN : WdtWriteReturn(pubDue, mqttUp)
    \/ \E pubDue, mqttUp \in BOOLEAN : WdtActive(pubDue, mqttUp)
    \/ LinkDrop
    \/ OnDisconnect

SpecWdt == InitWdt /\ [][NextWdt]_vars

-----------------------------------------------------------------------------
(* SpecHyst: the state of charge moving between decisions.  The current      *)
(* frame carries the state of charge at data[9] (line 273); the BLE task     *)
(* runs checkChargeControl at the end of each active iteration (line 754).   *)
(* The control flags are drawn at the start and never written.               *)

\* limits below 100 and states of charge around them
HystLimits == {50, 80, 99}
HystSocs == {0, 49, 50, 51, 79, 80, 81, 98, 99, 100, 255}

\* A current frame of 19 bytes reporting socv, delivered to decodeGreenway
HystNotify(socv, t) == Notify(MkFrame(19, RegCurrent, socv), t)

InitHyst ==
    /\ chargeTargetPercent \in HystLimits
    /\ chargeMasterSwitch = TRUE
    /\ modeMQTT \in BOOLEAN
    /\ mqttForceOff \in BOOLEAN
    /\ ~(modeMQTT /\ mqttForceOff)
    /\ relayActive = FALSE
    /\ relayPin = "HIGH"
    /\ bmsData = BmsZero
    /\ InitCommon

NextHyst ==
    \/ \E ok \in BOOLEAN, found \in {"noservice", "nochar", "notify", "plain"} :
          BleReconnect(ok, found)
    \/ \E socv \in HystSocs, t \in Millis : HystNotify(socv, t)
    \/ \E reqDue, pubDue, mqttUp \in BOOLEAN : BleActive(reqDue, pubDue, mqttUp)

SpecHyst == InitHyst /\ [][NextHyst]_vars

-----------------------------------------------------------------------------
(* Claims on checkChargeControl as a function (SpecDecide) *)

RelayIsOn == relayActive /\ relayPin = "LOW"
RelayIsOff == ~relayActive /\ relayPin = "HIGH"
ForceOffInEffect == modeMQTT /\ mqttForceOff

\* Steps 1-3 of the decision as the specification words them, force-off left out:
\* master off gives OFF, limit 100 gives ON, otherwise the dead band around the limit.
RuleWithoutForce(master, limit, socv, prior) ==
    /\ master
    /\ \/ limit = 100
       \/ socv <= limit - 1
       \/ (socv = limit /\ prior)

\* C1: with the master switch on, force-off not in effect and a limit below 100,
\* one call of checkChargeControl leaves the relay OFF when soc >= limit+1, ON
\* when soc <= limit-1, and as it was before the call when soc = limit.
C1_Hysteresis ==
    (/\ lastOp = "check"
     /\ chargeMasterSwitch
     /\ ~ForceOffInEffect
     /\ chargeTargetPercent < 100)
    => /\ (bmsData.soc >= chargeTargetPercent + 1 => RelayIsOff)
       /\ (bmsData.soc <= chargeTargetPercent - 1 => RelayIsOn)
       /\ (bmsData.soc = chargeTargetPercent => relayActive = priorRelay)
       /\ relayPin = PinFor(relayActive)

\* C1 witness: soc=86 at limit 85 switched a relay that was ON to OFF
C1_Witness ==
    /\ lastOp = "check"
    /\ chargeMasterSwitch /\ ~ForceOffInEffect
    /\ chargeTargetPercent = 85 /\ bmsData.soc = 86
    /\ priorRelay /\ RelayIsOff

\* C2: a call of checkChargeControl with the master switch off leaves the relay
\* OFF whatever soc, limit (100 included), mode, force-off and prior state are.
C2_MasterOff ==
    (lastOp = "check" /\ ~chargeMasterSwitch) => RelayIsOff

\* C2 witness: master off at limit 100 switched a relay that was ON to OFF
C2_Witness ==
    /\ lastOp = "check"
    /\ ~chargeMasterSwitch
    /\ chargeTargetPercent = 100
    /\ priorRelay /\ RelayIsOff

\* C3: with remote mode and force-off both set a call leaves the relay OFF; and a
\* call made with force-off set never leaves the relay ON where the same inputs
\* without force-off would give OFF (force-off can turn OFF, never ON).
C3_ForceOffOnlyOff ==
    lastOp = "check"
    => /\ (ForceOffInEffect => RelayIsOff)
       /\ ((mqttForceOff /\ relayActive)
            => RuleWithoutForce(chargeMasterSwitch, chargeTargetPercent,
                                bmsData.soc, priorRelay))

\* C3 witness: force-off in effect at limit 100 switched a relay that was ON to OFF
C3_Witness ==
    /\ lastOp = "check"
    /\ chargeMasterSwitch /\ ForceOffInEffect
    /\ chargeTargetPercent = 100
    /\ priorRelay /\ RelayIsOff

\* C4: at limit 100 a call leaves the relay ON for every soc and prior state,
\* unless the master switch is off or force-off is in effect, when it leaves it OFF.
C4_NoCeilingAt100 ==
    (lastOp = "check" /\ chargeTargetPercent = 100)
    => IF chargeMasterSwitch /\ ~ForceOffInEffect THEN RelayIsOn ELSE RelayIsOff

\* C4 witness: at limit 100 and soc 255 a relay that was OFF was switched ON
C4_Witness ==
    /\ lastOp = "check"
    /\ chargeTargetPercent = 100 /\ bmsData.soc = MaxSoc
    /\ chargeMasterSwitch /\ ~ForceOffInEffect
    /\ ~priorRelay /\ RelayIsOn

-----------------------------------------------------------------------------
(* Claims on the system (Spec) and on the interleaved calls (SpecRace) *)

\* The decision as the specification words it (section 4.3): master off gives
\* OFF, force-off in remote mode gives OFF, limit 100 gives ON, otherwise OFF
\* above the limit, ON below it, and the prior state at the limit.
RuleDecision(master, limit, socv, prior, mode, force) ==
    IF ~master THEN FALSE
    ELSE IF mode /\ force THEN FALSE
    ELSE IF limit = 100 THEN TRUE
    ELSE IF socv >= limit + 1 THEN FALSE
    ELSE IF socv <= limit - 1 THEN TRUE
    ELSE prior

\* the operations that run checkChargeControl
HandlerOps == {"setMaster", "setMode", "setLimit", TopicSetLimit, TopicSetPower}

\* C5: a control tick that begins after the last handler has returned, and
\* during which no flag and no soc changes, leaves the relay, at its completion,
\* at the decision for the current flags and soc, with the output mirroring
\* relayActive, whatever an earlier tick that overlapped the handler wrote.
C5_NextTickSettles ==
    (blePc = "ret" /\ tickFresh)
    => /\ relayActive = RuleDecision(chargeMasterSwitch, chargeTargetPercent, bmsData.soc,
                                     relayActive, modeMQTT, mqttForceOff)
       /\ relayPin = PinFor(relayActive)

\* C6: while lastUpdateTime is 0 no run of checkChargeControl switches the relay
\* from OFF to ON on the basis of bmsData.soc (that is, at a limit other than 100).
C6_NoTrustInvalid ==
    (/\ lastOp \in HandlerOps \cup {"tick"}
     /\ bmsData.lastUpdateTime = 0
     /\ chargeTargetPercent # 100)
    => ~(~priorRelay /\ relayActive)

C8_SafetyWithoutData ==
    (/\ mainPc = "ret"
     /\ bmsData.lastUpdateTime = 0 \/ ~linkUp
     /\ \/ (mainOp = "setMaster" /\ ~chargeMasterSwitch)
        \/ (mainOp = TopicSetPower /\ mqttForceOff /\ modeMQTT))
    => RelayIsOff

\* C9: when the handler of an "OFF" message on set_power returns, the relay is
\* OFF, whatever soc, limit, master switch and control mode are.
C9_RemoteStop ==
    (lastOp = TopicSetPower /\ lastMsg = PayloadOff) => RelayIsOff

\* C10: a set_power message sets mqttForceOff exactly when its payload is "OFF",
\* the relay is re-decided on the new flag before the handler returns, and no
\* other operation of the running device writes the flag (a restart starts
\* again from the initial value).
C10_SetPower ==
    /\ [](lastOp = TopicSetPower
            => /\ mqttForceOff = (lastMsg = PayloadOff)
               /\ relayActive = RuleDecision(chargeMasterSwitch, chargeTargetPercent,
                                             bmsData.soc, priorRelay, modeMQTT, mqttForceOff)
               /\ relayPin = PinFor(relayActive))
    /\ [][lastOp' \notin {TopicSetPower, "restart"} => mqttForceOff' = mqttForceOff]_vars

\* C10 witness: in remote mode, "off" in lower case cleared the flag and the
\* relay, which force-off had held OFF, was switched ON
C10_Witness ==
    /\ lastOp = TopicSetPower /\ lastMsg = <<"o", "f", "f">>
    /\ ~mqttForceOff /\ modeMQTT
    /\ ~priorRelay /\ RelayIsOn

-----------------------------------------------------------------------------
(* Claims on the command ingress (SpecCmd, Spec) *)

\* An integer written in decimal: after leading white space and an optional
\* sign, digits only and at least one
IntegerBody(msg) ==
    LET t == SkipSpace(msg)
    IN  IF t # <<>> /\ Head(t) \in {"-", "+"} THEN Tail(t) ELSE t

IsIntegerText(msg) ==
    IntegerBody(msg) # <<>> /\ \A i \in 1..Len(IntegerBody(msg)) : IsDigit(IntegerBody(msg)[i])

RECURSIVE DigitsValue(_)
DigitsValue(ds) ==
    IF ds = <<>> THEN 0
    ELSE 10 * DigitsValue(SubSeq(ds, 1, Len(ds) - 1)) + DigitVal(ds[Len(ds)])

DecimalValue(msg) ==
    IF SkipSpace(msg) # <<>> /\ Head(SkipSpace(msg)) = "-"
    THEN 0 - DigitsValue(IntegerBody(msg))
    ELSE DigitsValue(IntegerBody(msg))

\* the payload is an integer in 50..100
ValidLimitPayload(msg) ==
    IsIntegerText(msg) /\ DecimalValue(msg) >= 50 /\ DecimalValue(msg) <= 100

\* C11: a set_limit message whose payload is an integer in 50..100 sets
\* chargeTargetPercent to that value; any other payload leaves
\* chargeTargetPercent and the other control flags unchanged.
C11_SetLimitValidation ==
    [][lastOp' = TopicSetLimit
        => IF ValidLimitPayload(lastMsg')
           THEN chargeTargetPercent' = DecimalValue(lastMsg')
           ELSE UNCHANGED ctrlVars]_vars

\* C12: chargeTargetPercent is within 50..100 in every reachable state.
C12_LimitInRange == chargeTargetPercent >= 50 /\ chargeTargetPercent <= 100

\* C13: an accepted set_limit message updates chargeTargetPercent and writes
\* the same value to the preferences, so that a restart reloads it.
C13_LimitPersisted ==
    [][(lastOp' = TopicSetLimit /\ ValidLimitPayload(lastMsg'))
        => /\ chargeTargetPercent' = DecimalValue(lastMsg')
           /\ prefLim' = <<chargeTargetPercent'>>
           /\ SetupLimit(prefLim') = chargeTargetPercent']_vars



------------------------------------------------------------------------------
(* Claims on the frame decoder (SpecDecode, Spec) *)

\* The block awaiting its continuation
PendingBlock ==
    IF reasm.expect_suite_25 THEN "HIGH_BLOCK"
    ELSE IF reasm.expect_suite_24 THEN "LOW_BLOCK"
    ELSE "NONE"

PendingBlockNext ==
    IF reasm'.expect_suite_25 THEN "HIGH_BLOCK"
    ELSE IF reasm'.expect_suite_24 THEN "LOW_BLOCK"
    ELSE "NONE"

\* a cell value in millivolts from its two bytes
Millivolts(lo, hi) == hi * 256 + lo

\* The step decodes a frame f
Decodes(f) == lastOp' = "decode" /\ lastDecode'.frame = f

\* The measurement fields other than the cells and the pack minimum/maximum
ScalarsUnchanged ==
    /\ bmsData'.totalVoltage = bmsData.totalVoltage
    /\ bmsData'.current = bmsData.current
    /\ bmsData'.soc = bmsData.soc
    /\ bmsData'.soh = bmsData.soh
    /\ bmsData'.cycleCount = bmsData.cycleCount
    /\ bmsData'.remainingCapacity = bmsData.remainingCapacity
    /\ bmsData'.fullCapacity = bmsData.fullCapacity
    /\ bmsData'.tempT1 = bmsData.tempT1
    /\ bmsData'.tempT2 = bmsData.tempT2
    /\ bmsData'.tempMOS = bmsData.tempMOS

PackExtremesUnchanged ==
    /\ bmsData'.minVoltage = bmsData.minVoltage
    /\ bmsData'.maxVoltage = bmsData.maxVoltage

\* Cells first..last (numbered from 1) are the only cells the step changed
OnlyCellsChanged(first, last) ==
    \A k \in 1..CellArraySize :
        (k < first \/ k > last) => bmsData'.cellVolts[k - 1] = bmsData.cellVolts[k - 1]

\* The step stored the continuation f of the low block: cell 8 from the carry
\* byte and f's first byte, cells 9-16 from the byte pairs that follow
LowContinuationStored(f) ==
    /\ bmsData'.cellVolts[7] = Millivolts(reasm.main_packet_shift_byte, f[1])
    /\ \A k \in 9..16 :
          bmsData'.cellVolts[k - 1] = Millivolts(f[2 * (k - 9) + 2], f[2 * (k - 9) + 3])
    /\ OnlyCellsChanged(8, 16)
    /\ PackExtremesUnchanged

\* The step stored the continuation f of the high block: cell 24 from the carry
\* byte and f's first byte, cells 25-28, and the pack maximum and minimum
HighContinuationStored(f) ==
    /\ bmsData'.cellVolts[23] = Millivolts(reasm.main_packet_shift_byte, f[1])
    /\ \A k \in 25..28 :
          bmsData'.cellVolts[k - 1] = Millivolts(f[2 * (k - 25) + 2], f[2 * (k - 25) + 3])
    /\ OnlyCellsChanged(24, 28)
    /\ bmsData'.maxVoltage = Millivolts(f[14], f[15])
    /\ bmsData'.minVoltage = Millivolts(f[16], f[17])

\* C14: every frame of exactly 18 bytes, whatever its byte at the tag offset,
\* is taken as the continuation of the pending block: it completes cells 8-16
\* of a pending low block, or cells 24-28 and the pack minimum/maximum of a
\* pending high block, clears the pending block, and changes no other
\* measurement field.
C14_ContinuationByLength ==
    [][\A f \in DecodeFrames :
         (Decodes(f) /\ Len(f) = 18 /\ PendingBlock # "NONE")
            => /\ PendingBlock = "LOW_BLOCK" => LowContinuationStored(f)
               /\ PendingBlock = "HIGH_BLOCK" => HighContinuationStored(f)
               /\ PendingBlockNext = "NONE"
               /\ ScalarsUnchanged]_vars

\* C15: a low-block header followed by its continuation, both encoding the
\* same cell values, stores those values in cells 1-14; a high-block header
\* followed by its continuation stores them in cells 15-28.
C15_CellRoundTrip ==
    [][\A c \in CellPatterns :
         /\ (lastDecode.frame = LowHeader(c) /\ Decodes(LowCont(c)))
               => \A k \in 1..14 : bmsData'.cellVolts[k - 1] = c[k]
         /\ (lastDecode.frame = HighHeader(c) /\ Decodes(HighCont(c, PackMax(c), PackMin(c))))
               => \A k \in 15..28 : bmsData'.cellVolts[k - 1] = c[k]]_vars

\* C16: an 18-byte frame that arrives while no block is pending changes none
\* of the 28 cells and leaves no block pending; in particular the 18-byte
\* frame that directly follows a consumed continuation changes no cell.
C16_StrayContinuationNoOp ==
    [][\A f \in DecodeFrames :
         (Decodes(f) /\ Len(f) = 18)
            => /\ PendingBlock = "NONE"
                    => /\ \A k \in 1..NumCells :
                             bmsData'.cellVolts[k - 1] = bmsData.cellVolts[k - 1]
                       /\ PendingBlockNext = "NONE"
               /\ lastDecode.kind \in {"lowCont", "highCont"}
                    => \A k \in 1..NumCells :
                          bmsData'.cellVolts[k - 1] = bmsData.cellVolts[k - 1]]_vars

\* An 18-byte frame found no block pending, as the third frame after a low
\* header and its continuation, whose cells are still in the snapshot
C16_Witness ==
    /\ lastOp = "decode"
    /\ Len(lastDecode.frame) = 18
    /\ lastDecode.kind = "stray"
    /\ frameCount = 3
    /\ bmsData.cellVolts[8] # 0
    /\ PendingBlock = "NONE"

\* The least length a frame with this tag is decoded at; 0 for an unknown tag
TagMinLen(tag) ==
    CASE tag = 9 -> 9
      [] tag = 10 -> 18
      [] tag = 8 -> 9
      [] tag = 23 -> 7
      [] tag = 36 -> 20
      [] tag = 37 -> 20
      [] OTHER -> 0

\* A frame that is to be ignored: not 18 bytes long, and its tag unknown or
\* its length below the minimum of its tag (or too short to hold a tag)
IgnoredFrame(f) ==
    /\ Len(f) # 18
    /\ \/ Len(f) < 4
       \/ TagMinLen(f[4]) = 0
       \/ Len(f) < TagMinLen(f[4])

\* C17: an ignored frame leaves every measurement field of the snapshot, the
\* cell array, and the pending block and carry byte unchanged.
C17_IgnoredFramesChangeNothing ==
    [][\A f \in DecodeFrames :
         (Decodes(f) /\ IgnoredFrame(f))
            => /\ [bmsData' EXCEPT !.lastUpdateTime = 0] = [bmsData EXCEPT !.lastUpdateTime = 0]
               /\ reasm' = reasm]_vars

\* An ignored frame arrived while a decoded low block was pending, and the
\* block is still pending with its cells in place
C17_Witness ==
    /\ lastOp = "decode"
    /\ IgnoredFrame(lastDecode.frame)
    /\ Len(lastDecode.frame) >= 6
    /\ PendingBlock = "LOW_BLOCK"
    /\ bmsData.cellVolts[0] # 0
    /\ bmsData.minCellIndex # bmsData.maxCellIndex

\* C18: the snapshot's timestamp is nonzero only if some frame has been
\* decoded since start; ignored frames never make the snapshot valid.
C18_ValidOnlyAfterDecode ==
    bmsData.lastUpdateTime # 0 => everDecoded

\* The cells of the pack whose voltage is above 0.1 V
MeasuredCells == {i \in 0..(NumCells - 1) : bmsData.cellVolts[i] > 100}

\* The lowest and the highest voltage over the cells above 0.1 V
LowestCell ==
    CHOOSE v \in {bmsData.cellVolts[i] : i \in MeasuredCells} :
        \A i \in MeasuredCells : v <= bmsData.cellVolts[i]

HighestCell ==
    CHOOSE v \in {bmsData.cellVolts[i] : i \in MeasuredCells} :
        \A i \in MeasuredCells : v >= bmsData.cellVolts[i]

\* The minimum and maximum indices point at a lowest and a highest cell
ExtremeIndicesAgree ==
    /\ bmsData.minCellIndex \in 0..(NumCells - 1)
    /\ bmsData.maxCellIndex \in 0..(NumCells - 1)
    /\ MeasuredCells # {} =>
          /\ bmsData.cellVolts[bmsData.minCellIndex] = LowestCell
          /\ bmsData.cellVolts[bmsData.maxCellIndex] = HighestCell

\* The minimum and maximum voltages are those of a lowest and a highest cell
ExtremeValuesAgree ==
    MeasuredCells # {} =>
        /\ bmsData.minVoltage = LowestCell
        /\ bmsData.maxVoltage = HighestCell

\* C21: after every decoded frame the minimum and maximum cell voltages and
\* their indices are the value and the index of the lowest and of the highest
\* cell above 0.1 V, and both indices are within 0..27.
C21_MinMaxRecomputed ==
    (lastOp = "decode" /\ Len(lastDecode.frame) >= 6) =>
        (ExtremeIndicesAgree /\ ExtremeValuesAgree)

\* Byte i (counted from 0) of a frame; a byte the frame does not have reads 0
FrameByte(f, i) == IF i < Len(f) THEN f[i + 1] ELSE 0

\* A byte read as a signed 8-bit integer
SignedByte(b) == IF b >= 128 THEN b - 256 ELSE b

\* Bytes 5..8 of a frame read as a signed 32-bit little-endian integer
Signed32At5(f) ==
    FrameByte(f, 5) + 256 * FrameByte(f, 6) + 65536 * FrameByte(f, 7)
        + 16777216 * SignedByte(FrameByte(f, 8))

\* The step decodes f under the register tag, f being at least minLen long
DecodesRegister(f, tag, minLen) ==
    Decodes(f) /\ Len(f) >= minLen /\ FrameByte(f, 3) = tag

\* C22: a voltage frame (0x09, 9 bytes or more) sets totalVoltage to the
\* signed 32-bit little-endian integer of bytes 5..8; a current frame (0x0A,
\* 18 bytes or more) sets current from bytes 5..8, soc from byte 9, soh from
\* byte 13 and fullCapacity from the little-endian pair at bytes 17..18; a
\* temperature frame (0x08, 9 bytes or more) sets the three temperatures from
\* bytes 5, 7 and 9 read as signed bytes; a cycles frame (0x17, 7 bytes or
\* more) sets cycleCount from the little-endian pair at bytes 5..6.
C22_RegisterDecoding ==
    [][\A f \in DecodeFrames :
          /\ DecodesRegister(f, 9, 9) => bmsData'.totalVoltage = Signed32At5(f)
          /\ DecodesRegister(f, 10, 18) =>
                /\ bmsData'.current = Signed32At5(f)
                /\ bmsData'.soc = FrameByte(f, 9)
                /\ bmsData'.soh = FrameByte(f, 13)
                /\ bmsData'.fullCapacity = Millivolts(FrameByte(f, 17), FrameByte(f, 18))
          /\ DecodesRegister(f, 8, 9) =>
                /\ bmsData'.tempT1 = SignedByte(FrameByte(f, 5))
                /\ bmsData'.tempT2 = SignedByte(FrameByte(f, 7))
                /\ bmsData'.tempMOS = SignedByte(FrameByte(f, 9))
          /\ DecodesRegister(f, 23, 7) =>
                bmsData'.cycleCount = Millivolts(FrameByte(f, 5), FrameByte(f, 6))]_vars

\* C23: the state of charge and the state of health are within 0..100 in
\* every reachable state.
C23_PercentagesInRange ==
    /\ bmsData.soc \in 0..100
    /\ bmsData.soh \in 0..100

\* A header of the block with this tag: the tag at byte 3, 20 bytes or more
BlockHeader(f, tag) == Len(f) >= 20 /\ f[4] = tag

\* A frame decoded as a register: a scalar register tag at its minimum length
RegisterFrame(f) ==
    /\ Len(f) >= 6
    /\ f[4] \in {8, 9, 10, 23}
    /\ Len(f) >= TagMinLen(f[4])

\* An 18-byte frame taken as the continuation of the pending block
ConsumedContinuation(f) ==
    /\ Len(f) = 18
    /\ ~RegisterFrame(f)
    /\ PendingBlock # "NONE"

\* C28: the two expect flags are never both set; a low header (0x24, 20 bytes
\* or more) makes the low block pending and a high header (0x25, 20 bytes or
\* more) the high block, each in place of whatever was pending and each
\* storing byte 19 as the carry byte; an 18-byte frame consumed as a
\* continuation leaves no block pending; every other frame leaves the pending
\* block and the carry byte as they were.
C28_Reassembler ==
    [][\A f \in DecodeFrames :
          Decodes(f) =>
             /\ ~(reasm'.expect_suite_24 /\ reasm'.expect_suite_25)
             /\ BlockHeader(f, 36) =>
                   (PendingBlockNext = "LOW_BLOCK" /\ reasm'.main_packet_shift_byte = f[20])
             /\ BlockHeader(f, 37) =>
                   (PendingBlockNext = "HIGH_BLOCK" /\ reasm'.main_packet_shift_byte = f[20])
             /\ ConsumedContinuation(f) => PendingBlockNext = "NONE"
             /\ ~(BlockHeader(f, 36) \/ BlockHeader(f, 37) \/ ConsumedContinuation(f)) =>
                   /\ PendingBlockNext = PendingBlock
                   /\ reasm'.main_packet_shift_byte = reasm.main_packet_shift_byte]_vars

\* A high header has replaced a pending low block, after the low header and a
\* frame that left the low block pending
C28_Witness ==
    /\ lastOp = "decode"
    /\ lastDecode.kind = "highHeader"
    /\ frameCount = 3
    /\ PendingBlock = "HIGH_BLOCK"
    /\ bmsData.cellVolts[0] # 0
    /\ bmsData.cellVolts[7] = 0

------------------------------------------------------------------------------
(* Claims on publication and transport activity (SpecLoop) *)

\* The last step published telemetry
TelemetryEmitted == \E e \in out : e.ev \in {"status", "cells"}

\* The last step wrote a register request to the transport
RequestWritten == \E e \in out : e.ev = "request"

\* The step calls publishData
PublishAttempt == blePc = "pub" /\ blePc' = "gate"

\* C19: no status or cells message is published while lastUpdateTime is 0,
\* and two calls of publishData are at least the publish interval of 10 s
\* apart.
C19_PublicationGated ==
    [][/\ TelemetryEmitted' => bmsData'.lastUpdateTime # 0
       /\ PublishAttempt => sinceAttempt >= 10000]_vars

\* C20: no register request is written and no telemetry is published while
\* connected is false or chrData is cleared.
C20_NoTransportWhileDisconnected ==
    (RequestWritten \/ TelemetryEmitted) => (connected /\ chrData # "null")


-----------------------------------------------------------------------------
(* Claims on the request cycle (SpecRequest) *)

\* The register tags in the order they are to be requested
RegisterCycle == <<9, 10, 8, 36, 37, 23>>

\* The requests written by the last step
Requests == {e \in out : e.ev = "request"}

\* C24: the k-th request since boot carries entry k mod 6 of the register
\* list; each request advances the list index by one, cyclically; the index
\* the list is read at is within 0..5 for every k, also once the counter has
\* passed the largest int.
C24_RoundRobin ==
    [][Requests' # {} =>
          /\ RequestSlot(requestIndex) \in 0..5
          /\ \A e \in Requests' : e.tag = RegisterCycle[requestCount + 1]
          /\ RequestSlot(requestIndex') = (RequestSlot(requestIndex) + 1) % 6]_vars


\* C25: a request is written only when 500 ms or more have passed since the
\* write of the request before it returned, also when the link was lost and
\* made again in between.
C25_RequestSpacing ==
    [][Requests' # {} => sinceRequest >= 500]_vars

\* A second request of a boot has been written, the first one at least 500 ms
\* before
C25_Witness ==
    /\ Requests # {}
    /\ requestCount = 2
    /\ now >= 1000

\* C26: every request is the six bytes 0x46 0x16 0x01 <tag> 0x20 <chk>, chk
\* being the sum of the five bytes before it modulo 256.
C26_RequestFrame ==
    \A e \in Requests :
        /\ Len(e.frame) = 6
        /\ e.frame[1] = 70
        /\ e.frame[2] = 22
        /\ e.frame[3] = 1
        /\ e.frame[4] = e.tag
        /\ e.frame[5] = 32
        /\ e.frame[6] = (70 + 22 + 1 + e.tag + 32) % 256

\* The request of the last register of the cycle has been written
C26_Witness == \E e \in Requests : e.tag = 23 /\ requestCount = 0


-----------------------------------------------------------------------------
(* Claims on the watchdog (SpecWdt) *)

\* A watchdog time has run out
WdtExpired == wdt.ble >= 45000 \/ wdt.loop >= 45000

\* C27: every iteration of the BLE task and of the main loop resets the
\* task's watchdog time, and a step taken while the watchdog has expired and
\* a blocking connect or write is outstanding is never a restart.
C27_WatchdogDiscipline ==
    [][/\ (wdt.call = "none" /\ lastOp' \in {"bleIdle", "bleCall", "bleLinkLost", "tick"})
             => wdt'.ble = 0
       /\ lastOp' = "mainLoop" => wdt'.loop = 0
       /\ (WdtExpired /\ wdt.call # "none") => lastOp' # "restart"]_vars

\* The watchdog of the BLE task has expired during a write and been logged
C27_Witness ==
    /\ lastOp = "wdtAlarm"
    /\ wdt.call = "write"
    /\ wdt.ble = 0


-----------------------------------------------------------------------------
(* Claims on the relay under interleaving (SpecRace) *)

\* No call of checkChargeControl is in progress in either task
NoCallInProgress == blePc \in {"idle", "ret"} /\ mainPc \in {"idle", "ret"}

\* C29: relayActive is written only inside checkChargeControl, and whenever no
\* call of checkChargeControl is in progress in either task the relay output
\* is energised (LOW) exactly when relayActive is true, from boot onward and
\* under every interleaving.
C29_RelayMirror ==
    /\ [](NoCallInProgress => ((relayPin = "LOW") <=> relayActive))
    /\ [][relayActive' # relayActive => (blePc = "set" \/ mainPc = "set")]_vars

\* C30: whenever the master switch is off and no call of checkChargeControl is
\* in progress in either task, the relay output is OFF (HIGH), under every
\* interleaving of the control tick and the handlers.
C30_MasterOffInterleaved ==
    (~chargeMasterSwitch /\ NoCallInProgress) => relayPin = "HIGH"


-----------------------------------------------------------------------------
(* Claims on the effects of one call of checkChargeControl (SpecDecide) *)

\* The state the call about to run is to give the relay
Desired ==
    RuleDecision(chargeMasterSwitch, chargeTargetPercent, bmsData.soc, relayActive,
                 modeMQTT, mqttForceOff)

\* A log entry was printed
Logged(l) == l.mode # "none"

\* The step logs the change of the relay to the state d with the values the
\* decision was taken on
LogsChangeTo(d) ==
    /\ Logged(lastLog')
    /\ lastLog'.from = relayActive
    /\ lastLog'.to = d
    /\ lastLog'.soc = bmsData.soc
    /\ lastLog'.limit = chargeTargetPercent
    /\ lastLog'.master = chargeMasterSwitch
    /\ lastLog'.mode = (IF modeMQTT THEN "MQTT" ELSE "MANUAL")

\* C31: a call of checkChargeControl writes the relay output and logs one
\* entry exactly when the desired state differs from relayActive; the entry
\* carries the old and the new state, soc, limit, master switch and mode; when
\* the desired state equals relayActive the output, relayActive and the log
\* are left alone.
C31_ApplyOnlyOnChange ==
    [][lastOp' = "check" =>
          IF Desired # relayActive
          THEN /\ relayActive' = Desired
               /\ relayPin' = (IF Desired THEN "LOW" ELSE "HIGH")
               /\ LogsChangeTo(Desired)
          ELSE /\ relayActive' = relayActive
               /\ relayPin' = relayPin
               /\ ~Logged(lastLog')]_vars

\* A call in remote mode at the limit 100 switched the relay ON and logged it
C31_Witness ==
    /\ lastOp = "check"
    /\ Logged(lastLog)
    /\ lastLog.from = FALSE /\ lastLog.to = TRUE
    /\ lastLog.mode = "MQTT" /\ lastLog.limit = 100
    /\ relayActive /\ relayPin = "LOW"

\* C33: for every soc, every combination of the control flags and every prior
\* relay state, a run of checkChargeControl that follows another run with soc
\* and flags unchanged leaves relayActive and the output as the first run left
\* them and prints no log entry: the state a run leaves is one in which the
\* desired state equals relayActive and the output agrees with it, and the
\* run that follows changes neither and logs nothing.
C33_DecisionIdempotent ==
    /\ [](lastOp = "check" =>
            /\ Desired = relayActive
            /\ relayPin = (IF relayActive THEN "LOW" ELSE "HIGH"))
    /\ [][(lastOp = "check" /\ lastOp' = "check" /\ bmsData' = bmsData
             /\ UNCHANGED ctrlVars) =>
             /\ relayActive' = relayActive
             /\ relayPin' = relayPin
             /\ ~Logged(lastLog')]_vars

\* The first run has switched the relay off at soc = limit + 1 and logged it;
\* the run that follows finds the desired state equal to relayActive
C33_Witness ==
    /\ lastOp = "check"
    /\ Logged(lastLog)
    /\ lastLog.from = TRUE /\ lastLog.to = FALSE
    /\ bmsData.soc = chargeTargetPercent + 1
    /\ ~relayActive /\ relayPin = "HIGH"
    /\ Desired = relayActive

-----------------------------------------------------------------------------
(* Claim on the relay under a moving state of charge (SpecHyst) *)

\* master on, limit below 100, force-off not in effect
BandRuleInForce ==
    /\ chargeMasterSwitch
    /\ chargeTargetPercent < 100
    /\ ~(modeMQTT /\ mqttForceOff)

\* C32: with the master switch on, the limit L below 100 and force-off not in
\* effect, a decision of the BLE task switches the relay from ON to OFF only
\* when soc >= L + 1 and from OFF to ON only when soc <= L - 1.  Hence a relay
\* that is ON stays ON at every decision taken with soc in {L - 1, L}, and a
\* relay that is OFF stays OFF at every decision taken with soc in {L, L + 1}:
\* while soc stays in one of the two windows the relay changes at most once.
C32_NoChatter ==
    [][(lastOp' = "tick" /\ BandRuleInForce) =>
          /\ (relayActive /\ ~relayActive') => bmsData.soc >= chargeTargetPercent + 1
          /\ (~relayActive /\ relayActive') => bmsData.soc <= chargeTargetPercent - 1
          /\ (relayActive /\ bmsData.soc \in {chargeTargetPercent - 1, chargeTargetPercent})
                => relayActive'
          /\ (~relayActive /\ bmsData.soc \in {chargeTargetPercent, chargeTargetPercent + 1})
                => ~relayActive']_vars

\* A decision at soc = L + 1 has switched the relay off, after an earlier
\* decision had switched it on
C32_Witness ==
    /\ lastOp = "tick"
    /\ BandRuleInForce
    /\ priorRelay /\ ~relayActive
    /\ bmsData.soc = chargeTargetPercent + 1

-----------------------------------------------------------------------------
(* Claims on the bytes read and the fields written per frame (SpecDecode) *)

\* The frame passed a branch's test of tag and minimum length
AcceptedKinds ==
    {"voltage", "current", "temps", "cycles", "highHeader", "lowHeader", "highCont", "lowCont"}

\* C34: for every frame that the tag and minimum-length test of a branch
\* accepts, every index of data that decodeGreenway, and
\* printDetailedCellTable on its behalf, reads is strictly below the frame's
\* length.
C34_ReadsInsideFrame ==
    (lastOp = "decode" /\ lastDecode.kind \in AcceptedKinds) =>
        \A i \in lastDecode.reads : i < Len(lastDecode.frame)

\* the measurement fields of the snapshot that the branches of lines 265-323
\* write, the cell array apart
MeasurementFields ==
    {"totalVoltage", "current", "soc", "soh", "cycleCount", "remainingCapacity",
     "fullCapacity", "tempT1", "tempT2", "tempMOS", "minVoltage", "maxVoltage"}

\* The step changed no measurement field outside fields and no cell outside
\* first..last (cells numbered from 1; first > last for no cell)
WritesOnly(fields, first, last) ==
    /\ \A fld \in MeasurementFields \ fields : bmsData'[fld] = bmsData[fld]
    /\ OnlyCellsChanged(first, last)

\* A scalar register frame with tag tag, accepted at its minimum length
ScalarFrame(f, tag) == RegisterFrame(f) /\ f[4] = tag

\* C35: each accepted frame writes only its own part of the snapshot.  A
\* voltage frame writes only totalVoltage, a current frame only current, soc,
\* soh and fullCapacity, a temperature frame only the three temperatures, a
\* cycle-count frame only cycleCount, and none of them a cell; a low header
\* writes only cells 1-7, a low continuation only cells 8-16, a high header
\* only cells 17-23, a high continuation only cells 24-28 and the pack
\* minimum and maximum voltage; no frame writes a cell array entry outside
\* 0..27.
C35_PerFrameWriteSet ==
    [][\A f \in DecodeFrames :
          Decodes(f) =>
             /\ ScalarFrame(f, 9) => WritesOnly({"totalVoltage"}, 1, 0)
             /\ ScalarFrame(f, 10) => WritesOnly({"current", "soc", "soh", "fullCapacity"}, 1, 0)
             /\ ScalarFrame(f, 8) => WritesOnly({"tempT1", "tempT2", "tempMOS"}, 1, 0)
             /\ ScalarFrame(f, 23) => WritesOnly({"cycleCount"}, 1, 0)
             /\ BlockHeader(f, 36) => WritesOnly({}, 1, 7)
             /\ BlockHeader(f, 37) => WritesOnly({}, 17, 23)
             /\ (ConsumedContinuation(f) /\ PendingBlock = "LOW_BLOCK") => WritesOnly({}, 8, 16)
             /\ (ConsumedContinuation(f) /\ PendingBlock = "HIGH_BLOCK") =>
                   WritesOnly({"minVoltage", "maxVoltage"}, 24, 28)
             /\ \A i \in 28..(CellArraySize - 1) : bmsData'.cellVolts[i] = bmsData.cellVolts[i]
             /\ DOMAIN bmsData'.cellVolts = 0..(CellArraySize - 1)]_vars

\* A high continuation has stored cells 24-28 and the pack extremes after its
\* header stored cells 17-23; cells 1-16 and the scalar registers are as at
\* start
C35_Witness ==
    /\ lastOp = "decode"
    /\ lastDecode.kind = "highCont"
    /\ \A i \in 16..27 : bmsData.cellVolts[i] > 0
    /\ \A i \in 0..15 : bmsData.cellVolts[i] = 0
    /\ bmsData.maxVoltage > 0 /\ bmsData.minVoltage > 0
    /\ bmsData.totalVoltage = 0 /\ bmsData.soc = 0

==============================================================================
